---- MODULE Spec2Model ----
(***************************************************************************)
(* Model of the event-stream translation core of the OpenCode provider:    *)
(* the finish-reason classifier (map-opencode-finish-reason), the session  *)
(* correlator and the event-to-stream-part translator                      *)
(* (convert-from-opencode-events) and the streaming relay loop of          *)
(* OpencodeLanguageModel.doStream.                                         *)
(*                                                                         *)
(* JavaScript strings whose content the code inspects (text, deltas,       *)
(* finish tokens, serialized tool input) are sequences of one-character    *)
(* strings; identifiers and enum tags are TLA+ strings.  A record models   *)
(* an object; the string Undefined models a missing field / undefined.     *)
(***************************************************************************)
EXTENDS Integers, Sequences, FiniteSets, TLC

VARIABLES
  pc,               \* position of the running call / of doStream's start()
  message,          \* argument of mapOpencodeFinishReason
  reason,           \* its result
  error,            \* argument of mapErrorToFinishReasonFromUnknown; in
                    \* doStream, the error the subscription failed with
  errorReason,      \* its result
  event,            \* the inbound event being correlated / relayed last
  sessionId,        \* the session id of the request
  owned,            \* result of isEventForSession(event, sessionId)
  state,            \* StreamState of the request
  fed,              \* inbound events handed to the program so far, in order
  out,              \* outbound stream parts emitted so far, in order
  lastMessageInfo,  \* doStream: last assistant message descriptor
  abortSignal,      \* doStream: options.abortSignal.aborted
  promptState,      \* doStream: state of the un-awaited session.prompt call
  abortCalls,       \* doStream: number of session.abort requests sent
  abortResult,      \* doStream: how the session.abort request settled
  closed,           \* doStream: controller.close() has run
  inst,             \* OpencodeLanguageModel instance: settings and this.sessionId
  net,              \* calls made on the client manager and the client so far
  req,              \* the doGenerate / doStream call in progress
  generated,        \* doGenerate: the response parts and the result built
  mgr               \* OpencodeClientManager: the singleton slot, the managers,
                    \* their initializations and the getClient calls made

vars == <<pc, message, reason, error, errorReason, event, sessionId, owned,
          state, fed, out, lastMessageInfo, abortSignal, promptState,
          abortCalls, abortResult, closed, inst, net, req, generated,
          mgr>>

Undefined == "undefined"

(***************************************************************************)
(* Strings as character sequences.                                         *)
(***************************************************************************)
UpperCase == <<"A","B","C","D","E","F","G","H","I","J","K","L","M",
               "N","O","P","Q","R","S","T","U","V","W","X","Y","Z">>
LowerCase == <<"a","b","c","d","e","f","g","h","i","j","k","l","m",
               "n","o","p","q","r","s","t","u","v","w","x","y","z">>

\* String.prototype.toLowerCase, character by character
toLowerCase(s) ==
  [i \in 1..Len(s) |->
     IF \E k \in 1..Len(UpperCase) : UpperCase[k] = s[i]
     THEN LowerCase[CHOOSE k \in 1..Len(UpperCase) : UpperCase[k] = s[i]]
     ELSE s[i]]

\* String.prototype.slice(n) for 0 <= n
slice(s, n) == IF n >= Len(s) THEN <<>> ELSE SubSeq(s, n + 1, Len(s))

\* String.prototype.startsWith
startsWith(s, p) == Len(p) <= Len(s) /\ SubSeq(s, 1, Len(p)) = p

\* JavaScript truthiness of a string | undefined value held as a character sequence;
\* the empty sequence stands for both "" and undefined, which every test
\* of the code treats alike (if (delta), part.text &&, message.finish, lastInput &&)
Truthy(s) == s # <<>>

\* JavaScript truthiness of an identifier (string | undefined)
TruthyId(id) == id # Undefined /\ id # ""

(***************************************************************************)
(* Finish-reason classifier (map-opencode-finish-reason.ts).               *)
(***************************************************************************)
FinishReasons == {"stop", "length", "tool-calls", "content-filter", "error", "unknown"}

S_end_turn       == <<"e","n","d","_","t","u","r","n">>
S_stop           == <<"s","t","o","p">>
S_end            == <<"e","n","d">>
S_max_tokens     == <<"m","a","x","_","t","o","k","e","n","s">>
S_length         == <<"l","e","n","g","t","h">>
S_tool_use       == <<"t","o","o","l","_","u","s","e">>
S_tool_calls     == <<"t","o","o","l","_","c","a","l","l","s">>
S_content_filter == <<"c","o","n","t","e","n","t","_","f","i","l","t","e","r">>
S_safety         == <<"s","a","f","e","t","y">>
S_error          == <<"e","r","r","o","r">>

\* MessageInfo | undefined.  shape "absent" is undefined; error is the error's
\* name, Undefined when the descriptor has no error; finish is <<>> when absent.
NoInfo ==
  [shape |-> "absent", id |-> Undefined, sessionID |-> Undefined,
   role |-> Undefined, error |-> Undefined, finish |-> <<>>]

Info(id, sid, role, err, fin) ==
  [shape |-> "object", id |-> id, sessionID |-> sid,
   role |-> role, error |-> err, finish |-> fin]

mapErrorToFinishReason_ignoresAbort(name) ==
  CASE name = "MessageOutputLengthError" -> "length"
    [] OTHER -> "error"

mapErrorToFinishReason(name) ==
  CASE name = "MessageAbortedError" -> "stop"
    [] name = "MessageOutputLengthError" -> "length"
    [] name \in {"ProviderAuthError", "APIError", "UnknownError"} -> "error"
    [] OTHER -> "error"

mapFinishToReason_caseSensitive(finish) ==
  LET normalizedFinish == finish IN
    IF normalizedFinish \in {S_end_turn, S_stop, S_end} THEN "stop"
    ELSE IF normalizedFinish \in {S_max_tokens, S_length} THEN "length"
    ELSE IF normalizedFinish \in {S_tool_use, S_tool_calls} THEN "tool-calls"
    ELSE IF normalizedFinish \in {S_content_filter, S_safety} THEN "content-filter"
    ELSE IF normalizedFinish = S_error THEN "error"
    ELSE "stop"

mapFinishToReason(finish) ==
  LET normalizedFinish == toLowerCase(finish) IN
    IF normalizedFinish \in {S_end_turn, S_stop, S_end} THEN "stop"
    ELSE IF normalizedFinish \in {S_max_tokens, S_length} THEN "length"
    ELSE IF normalizedFinish \in {S_tool_use, S_tool_calls} THEN "tool-calls"
    ELSE IF normalizedFinish \in {S_content_filter, S_safety} THEN "content-filter"
    ELSE IF normalizedFinish = S_error THEN "error"
    ELSE "stop"

mapOpencodeFinishReason_finishFirst(m) ==
  IF m.shape = "absent" THEN "unknown"
  ELSE IF Truthy(m.finish) THEN mapFinishToReason(m.finish)
  ELSE IF m.error # Undefined THEN mapErrorToFinishReason(m.error)
  ELSE "stop"

mapOpencodeFinishReason(m) ==
  IF m.shape = "absent" THEN "unknown"
  ELSE IF m.error # Undefined THEN mapErrorToFinishReason(m.error)
  ELSE IF Truthy(m.finish) THEN mapFinishToReason(m.finish)
  ELSE "stop"

\* Raw caught errors: null, undefined, or an object with optional name and message.
NullError == [kind |-> "null", name |-> Undefined, message |-> Undefined]
UndefinedError == [kind |-> "undefined", name |-> Undefined, message |-> Undefined]
ErrorObject(name, msg) == [kind |-> "object", name |-> name, message |-> msg]

AbortMessages == {"The operation was aborted"}
MaxTokensMessages == {"Max tokens exceeded"}

\* errors.ts: isAbortError and isOutputLengthError as the specification states
\* them ("name/message containing an abort signature", "name/message indicating
\* output-length exceeded") and as the tests of mapErrorToFinishReasonFromUnknown
\* use them.
isAbortError(e) ==
  /\ e.kind = "object"
  /\ \/ e.name \in {"AbortError", "MessageAbortedError"}
     \/ e.message \in AbortMessages

isOutputLengthError(e) ==
  /\ e.kind = "object"
  /\ \/ e.name = "MessageOutputLengthError"
     \/ e.message \in MaxTokensMessages

mapErrorToFinishReasonFromUnknown_lengthFirst(e) ==
  IF isOutputLengthError(e) THEN "length"
  ELSE IF isAbortError(e) THEN "stop"
  ELSE "error"

mapErrorToFinishReasonFromUnknown(e) ==
  IF isAbortError(e) THEN "stop"
  ELSE IF isOutputLengthError(e) THEN "length"
  ELSE "error"

(***************************************************************************)
(* Inbound events and parts (convert-from-opencode-events.ts).             *)
(***************************************************************************)
NoToolState ==
  [status |-> Undefined, input |-> <<>>, title |-> Undefined,
   output |-> Undefined, error |-> Undefined]

ZeroTokens ==
  [input |-> 0, output |-> 0, reasoning |-> 0, cache |-> [read |-> 0, write |-> 0]]

\* Part.  shape "absent": the event has no part; "nonobject": the part field is
\* null or a primitive; "object": a part object.  lacks: the fields among
\* state, tokens and tokens.cache that a part object of that kind does not have.
NoPart ==
  [shape |-> "absent", lacks |-> {}, type |-> Undefined, id |-> Undefined,
   sessionID |-> Undefined, messageID |-> Undefined, text |-> <<>>,
   synthetic |-> FALSE, ignored |-> FALSE, callID |-> Undefined,
   tool |-> Undefined, state |-> NoToolState, tokens |-> ZeroTokens, cost |-> 0]

TextPart(id, sid, mid, text) ==
  [NoPart EXCEPT !.shape = "object", !.type = "text", !.id = id,
                 !.sessionID = sid, !.messageID = mid, !.text = text]

ReasoningPart(id, sid, mid, text) ==
  [NoPart EXCEPT !.shape = "object", !.type = "reasoning", !.id = id,
                 !.sessionID = sid, !.messageID = mid, !.text = text]

ToolPart(id, sid, mid, callID, tool, toolState) ==
  [NoPart EXCEPT !.shape = "object", !.type = "tool", !.id = id,
                 !.sessionID = sid, !.messageID = mid, !.callID = callID,
                 !.tool = tool, !.state = toolState]

StepFinishPart(id, sid, mid, tokens, cost) ==
  [NoPart EXCEPT !.shape = "object", !.type = "step-finish", !.id = id,
                 !.sessionID = sid, !.messageID = mid, !.tokens = tokens,
                 !.cost = cost]

\* file, step-start and unrecognized part kinds
OtherPart(type, id, sid, mid) ==
  [NoPart EXCEPT !.shape = "object", !.type = type, !.id = id,
                 !.sessionID = sid, !.messageID = mid]

ToolStatePending(input) == [NoToolState EXCEPT !.status = "pending", !.input = input]
ToolStateRunning(input, title) ==
  [NoToolState EXCEPT !.status = "running", !.input = input, !.title = title]
ToolStateCompleted(input, output) ==
  [NoToolState EXCEPT !.status = "completed", !.input = input, !.output = output]
ToolStateError(input, err) ==
  [NoToolState EXCEPT !.status = "error", !.input = input, !.error = err]

\* OpencodeEvent.  props "nonobject": properties is missing, null or a primitive.
\* sessionID Undefined: properties has no sessionID (or an undefined one);
\* status is properties.status.type; delta <<>>: no delta (or an empty one).
\* lacks {"status"}: a properties object without the status object.
NoEvent ==
  [type |-> Undefined, props |-> "nonobject", lacks |-> {}, part |-> NoPart,
   delta |-> <<>>,
   info |-> NoInfo, sessionID |-> Undefined, status |-> Undefined]

EventMessagePartUpdated(part, delta) ==
  [NoEvent EXCEPT !.type = "message.part.updated", !.props = "object",
                  !.part = part, !.delta = delta]

EventMessageUpdated(info) ==
  [NoEvent EXCEPT !.type = "message.updated", !.props = "object", !.info = info]

EventSessionStatus(sid, status) ==
  [NoEvent EXCEPT !.type = "session.status", !.props = "object",
                  !.sessionID = sid, !.status = status]

EventSessionIdle(sid) ==
  [NoEvent EXCEPT !.type = "session.idle", !.props = "object", !.sessionID = sid]

(***************************************************************************)
(* Session correlator.                                                     *)
(***************************************************************************)
isEventForSession_directFirst(ev, sid) ==
  IF ev.props = "object" THEN
    IF ev.sessionID # Undefined THEN ev.sessionID = sid
    ELSE IF ev.part.shape = "object" THEN ev.part.sessionID = sid
    ELSE IF ev.info.shape = "object" THEN ev.info.sessionID = sid
    ELSE FALSE
  ELSE FALSE

isEventForSession(ev, sid) ==
  IF ev.props = "object" THEN
    IF ev.part.shape = "object" THEN ev.part.sessionID = sid
    ELSE IF ev.info.shape = "object" THEN ev.info.sessionID = sid
    ELSE IF ev.sessionID # Undefined THEN ev.sessionID = sid
    ELSE FALSE
  ELSE FALSE

isSessionComplete(ev, sid) ==
  IF ev.type = "session.status" THEN ev.sessionID = sid /\ ev.status = "idle"
  ELSE IF ev.type = "session.idle" THEN ev.sessionID = sid
  ELSE FALSE

(***************************************************************************)
(* Stream state.                                                           *)
(***************************************************************************)
\* An empty Map; a Map is a function whose domain is its key set.
EmptyMap == [k \in {} |-> Undefined]
MapHas(m, k) == k \in DOMAIN m
MapSet(m, k, v) == [x \in (DOMAIN m) \cup {k} |-> IF x = k THEN v ELSE m[x]]
\* Map.get, with undefined as the given default
MapGet(m, k, default) == IF k \in DOMAIN m THEN m[k] ELSE default

createStreamState ==
  [textPartId |-> Undefined, textStarted |-> FALSE,
   reasoningPartId |-> Undefined, reasoningStarted |-> FALSE,
   toolStates |-> EmptyMap,
   usage |-> [inputTokens |-> 0, outputTokens |-> 0, reasoningTokens |-> 0,
              cachedInputTokens |-> 0, cachedWriteTokens |-> 0, totalCost |-> 0],
   lastTextContent |-> <<>>, lastReasoningContent |-> <<>>,
   messageRoles |-> EmptyMap]

\* The result of a handler: the mutated state and the parts it pushed.
Result(st, parts) == [state |-> st, parts |-> parts]

(***************************************************************************)
(* Event-to-stream-part translator.                                        *)
(***************************************************************************)
handleTextPart_noForceClose(part, delta, st) ==
  LET partId == part.id
      opens == ~st.textStarted \/ st.textPartId # partId
      startParts == IF opens THEN << [type |-> "text-start", id |-> partId] >> ELSE <<>>
      s1 == IF opens
            THEN [st EXCEPT !.textStarted = TRUE, !.textPartId = partId,
                            !.lastTextContent = <<>>]
            ELSE st
      newDelta == slice(part.text, Len(s1.lastTextContent))
  IN
    IF Truthy(delta) THEN
      Result([s1 EXCEPT !.lastTextContent = s1.lastTextContent \o delta],
             startParts \o << [type |-> "text-delta", id |-> partId, delta |-> delta] >>)
    ELSE IF Truthy(part.text) /\ part.text # s1.lastTextContent /\ Truthy(newDelta) THEN
      Result([s1 EXCEPT !.lastTextContent = part.text],
             startParts \o << [type |-> "text-delta", id |-> partId, delta |-> newDelta] >>)
    ELSE Result(s1, startParts)

handleTextPart_noAccumulate(part, delta, st) ==
  LET partId == part.id
      opens == ~st.textStarted \/ st.textPartId # partId
      endParts == IF opens /\ st.textStarted /\ TruthyId(st.textPartId)
                     /\ st.textPartId # partId
                  THEN << [type |-> "text-end", id |-> st.textPartId] >> ELSE <<>>
      startParts == IF opens THEN << [type |-> "text-start", id |-> partId] >> ELSE <<>>
      s1 == IF opens
            THEN [st EXCEPT !.textStarted = TRUE, !.textPartId = partId,
                            !.lastTextContent = <<>>]
            ELSE st
  IN
    IF Truthy(delta) THEN
      Result([s1 EXCEPT !.lastTextContent = s1.lastTextContent \o delta],
             endParts \o startParts
               \o << [type |-> "text-delta", id |-> partId, delta |-> delta] >>)
    ELSE IF Truthy(part.text) /\ part.text # s1.lastTextContent THEN
      Result(s1, endParts \o startParts
               \o << [type |-> "text-delta", id |-> partId, delta |-> part.text] >>)
    ELSE Result(s1, endParts \o startParts)

handleTextPart(part, delta, st) ==
  LET partId == part.id
      opens == ~st.textStarted \/ st.textPartId # partId
      endParts == IF opens /\ st.textStarted /\ TruthyId(st.textPartId)
                     /\ st.textPartId # partId
                  THEN << [type |-> "text-end", id |-> st.textPartId] >> ELSE <<>>
      startParts == IF opens THEN << [type |-> "text-start", id |-> partId] >> ELSE <<>>
      s1 == IF opens
            THEN [st EXCEPT !.textStarted = TRUE, !.textPartId = partId,
                            !.lastTextContent = <<>>]
            ELSE st
      newDelta == slice(part.text, Len(s1.lastTextContent))
  IN
    IF Truthy(delta) THEN
      Result([s1 EXCEPT !.lastTextContent = s1.lastTextContent \o delta],
             endParts \o startParts
               \o << [type |-> "text-delta", id |-> partId, delta |-> delta] >>)
    ELSE IF Truthy(part.text) /\ part.text # s1.lastTextContent /\ Truthy(newDelta) THEN
      Result([s1 EXCEPT !.lastTextContent = part.text],
             endParts \o startParts
               \o << [type |-> "text-delta", id |-> partId, delta |-> newDelta] >>)
    ELSE Result(s1, endParts \o startParts)

handleReasoningPart(part, delta, st) ==
  LET partId == part.id
      opens == ~st.reasoningStarted \/ st.reasoningPartId # partId
      endParts == IF opens /\ st.reasoningStarted /\ TruthyId(st.reasoningPartId)
                     /\ st.reasoningPartId # partId
                  THEN << [type |-> "reasoning-end", id |-> st.reasoningPartId] >>
                  ELSE <<>>
      startParts == IF opens THEN << [type |-> "reasoning-start", id |-> partId] >>
                    ELSE <<>>
      s1 == IF opens
            THEN [st EXCEPT !.reasoningStarted = TRUE, !.reasoningPartId = partId,
                            !.lastReasoningContent = <<>>]
            ELSE st
      newDelta == slice(part.text, Len(s1.lastReasoningContent))
  IN
    IF Truthy(delta) THEN
      Result([s1 EXCEPT !.lastReasoningContent = s1.lastReasoningContent \o delta],
             endParts \o startParts
               \o << [type |-> "reasoning-delta", id |-> partId, delta |-> delta] >>)
    ELSE IF Truthy(part.text) /\ part.text # s1.lastReasoningContent
            /\ Truthy(newDelta) THEN
      Result([s1 EXCEPT !.lastReasoningContent = part.text],
             endParts \o startParts
               \o << [type |-> "reasoning-delta", id |-> partId, delta |-> newDelta] >>)
    ELSE Result(s1, endParts \o startParts)

\* JSON.stringify of a tool input object.  An input is the sequence of its keys
\* (one-character names, in insertion order), each holding the number 1:
\* <<"a","b">> is {a: 1, b: 1} and serializes to {"a":1,"b":1}.
\* An input that is a number and no object is the sequence of its digits after
\* the mark "#": <<"#","1","2">> is 12 and serializes to 12.
RECURSIVE JSONentries(_)
JSONentries(input) ==
  IF input = <<>> THEN <<>>
  ELSE << "\"", Head(input), "\"", ":", "1" >>
         \o (IF Len(input) > 1 THEN << "," >> ELSE <<>>)
         \o JSONentries(Tail(input))

JSONstringify(input) ==
  IF input # <<>> /\ Head(input) = "#" THEN Tail(input)
  ELSE << "{" >> \o JSONentries(input) \o << "}" >>

NewToolStreamState(callID, tool) ==
  [callId |-> callID, toolName |-> tool, inputStarted |-> FALSE,
   inputClosed |-> FALSE, callEmitted |-> FALSE, resultEmitted |-> FALSE,
   lastInput |-> <<>>]

ToolInputStart(callID, tool, title) ==
  IF TruthyId(title)
  THEN [type |-> "tool-input-start", id |-> callID, toolName |-> tool,
        providerExecuted |-> TRUE, dynamic |-> TRUE, title |-> title]
  ELSE [type |-> "tool-input-start", id |-> callID, toolName |-> tool,
        providerExecuted |-> TRUE, dynamic |-> TRUE]

ToolCall(callID, tool, input) ==
  [type |-> "tool-call", toolCallId |-> callID, toolName |-> tool,
   input |-> JSONstringify(input), providerExecuted |-> TRUE, dynamic |-> TRUE]

ToolResult(callID, tool, result, isError) ==
  [type |-> "tool-result", toolCallId |-> callID, toolName |-> tool,
   result |-> result, isError |-> isError, dynamic |-> TRUE]

ToolTerminal_noOpen(callID, tool, toolState, ss, result, isError) ==
  LET closeParts ==
        IF ~ss.inputClosed THEN << [type |-> "tool-input-end", id |-> callID] >>
        ELSE <<>>
      callParts == IF ~ss.callEmitted THEN << ToolCall(callID, tool, toolState.input) >>
                   ELSE <<>>
      resultParts == IF ~ss.resultEmitted
                     THEN << ToolResult(callID, tool, result, isError) >> ELSE <<>>
  IN [ss |-> [ss EXCEPT !.inputClosed = TRUE, !.callEmitted = TRUE,
                        !.resultEmitted = TRUE],
      parts |-> closeParts \o callParts \o resultParts]

ToolTerminal_noLatch(callID, tool, toolState, ss, result, isError) ==
  LET closeParts ==
        IF ~ss.inputClosed
        THEN (IF ~ss.inputStarted THEN << ToolInputStart(callID, tool, Undefined) >>
              ELSE <<>>) \o << [type |-> "tool-input-end", id |-> callID] >>
        ELSE <<>>
  IN [ss |-> [ss EXCEPT !.inputStarted = (ss.inputStarted \/ ~ss.inputClosed),
                        !.inputClosed = TRUE, !.callEmitted = TRUE,
                        !.resultEmitted = TRUE],
      parts |-> closeParts \o << ToolCall(callID, tool, toolState.input),
                                 ToolResult(callID, tool, result, isError) >>]

\* the terminal branches (completed, error) of handleToolPart's switch
ToolTerminal(callID, tool, toolState, ss, result, isError) ==
  LET closeParts ==
        IF ~ss.inputClosed
        THEN (IF ~ss.inputStarted THEN << ToolInputStart(callID, tool, Undefined) >>
              ELSE <<>>) \o << [type |-> "tool-input-end", id |-> callID] >>
        ELSE <<>>
      callParts == IF ~ss.callEmitted THEN << ToolCall(callID, tool, toolState.input) >>
                   ELSE <<>>
      resultParts == IF ~ss.resultEmitted
                     THEN << ToolResult(callID, tool, result, isError) >> ELSE <<>>
  IN [ss |-> [ss EXCEPT !.inputStarted = (ss.inputStarted \/ ~ss.inputClosed),
                        !.inputClosed = TRUE, !.callEmitted = TRUE,
                        !.resultEmitted = TRUE],
      parts |-> closeParts \o callParts \o resultParts]

handleToolPart(part, st) ==
  LET callID == part.callID
      tool == part.tool
      toolState == part.state
      ss == MapGet(st.toolStates, callID, NewToolStreamState(callID, tool))
      inputStr == JSONstringify(toolState.input)
      r == CASE toolState.status = "pending" ->
                  [ss |-> [ss EXCEPT !.inputStarted = TRUE],
                   parts |-> IF ~ss.inputStarted
                             THEN << ToolInputStart(callID, tool, Undefined) >>
                             ELSE <<>>]
             [] toolState.status = "running" ->
                  [ss |-> [ss EXCEPT !.inputStarted = TRUE, !.lastInput = inputStr],
                   parts |->
                     (IF ~ss.inputStarted
                      THEN << ToolInputStart(callID, tool, toolState.title) >>
                      ELSE <<>>)
                     \o (IF Truthy(ss.lastInput) /\ startsWith(inputStr, ss.lastInput)
                            /\ Truthy(slice(inputStr, Len(ss.lastInput)))
                         THEN << [type |-> "tool-input-delta", id |-> callID,
                                  delta |-> slice(inputStr, Len(ss.lastInput))] >>
                         ELSE <<>>)]
             [] toolState.status = "completed" ->
                  ToolTerminal(callID, tool, toolState, ss,
                               IF toolState.output = Undefined THEN ""
                               ELSE toolState.output, FALSE)
             [] toolState.status = "error" ->
                  ToolTerminal(callID, tool, toolState, ss,
                               IF toolState.error = Undefined THEN "Unknown error"
                               ELSE toolState.error, TRUE)
             [] OTHER -> [ss |-> ss, parts |-> <<>>]
  IN Result([st EXCEPT !.toolStates = MapSet(st.toolStates, callID, r.ss)], r.parts)

handleStepFinishPart_overwrites(part, st) ==
  [st EXCEPT !.usage =
     [inputTokens |-> part.tokens.input,
      outputTokens |-> part.tokens.output,
      reasoningTokens |-> part.tokens.reasoning,
      cachedInputTokens |-> part.tokens.cache.read,
      cachedWriteTokens |-> part.tokens.cache.write,
      totalCost |-> part.cost]]

handleStepFinishPart(part, st) ==
  [st EXCEPT !.usage =
     [inputTokens |-> st.usage.inputTokens + part.tokens.input,
      outputTokens |-> st.usage.outputTokens + part.tokens.output,
      reasoningTokens |-> st.usage.reasoningTokens + part.tokens.reasoning,
      cachedInputTokens |-> st.usage.cachedInputTokens + part.tokens.cache.read,
      cachedWriteTokens |-> st.usage.cachedWriteTokens + part.tokens.cache.write,
      totalCost |-> st.usage.totalCost + part.cost]]

handleFilePart(part) == <<>>

handlePartUpdated_noRoleFilter(ev, st) ==
  LET part == ev.part
      delta == ev.delta
  IN CASE part.type = "text" ->
            IF part.synthetic \/ part.ignored THEN Result(st, <<>>)
            ELSE handleTextPart(part, delta, st)
       [] part.type = "reasoning" -> handleReasoningPart(part, delta, st)
       [] part.type = "tool" -> handleToolPart(part, st)
       [] part.type = "step-finish" -> Result(handleStepFinishPart(part, st), <<>>)
       [] part.type = "step-start" -> Result(st, <<>>)
       [] part.type = "file" -> Result(st, handleFilePart(part))
       [] OTHER -> Result(st, <<>>)

handlePartUpdated_relaysSynthetic(ev, st) ==
  LET part == ev.part
      delta == ev.delta
      messageRole == MapGet(st.messageRoles, part.messageID, Undefined)
  IN IF messageRole = "user" THEN Result(st, <<>>)
     ELSE CASE part.type = "text" -> handleTextPart(part, delta, st)
            [] part.type = "reasoning" -> handleReasoningPart(part, delta, st)
            [] part.type = "tool" -> handleToolPart(part, st)
            [] part.type = "step-finish" -> Result(handleStepFinishPart(part, st), <<>>)
            [] part.type = "step-start" -> Result(st, <<>>)
            [] part.type = "file" -> Result(st, handleFilePart(part))
            [] OTHER -> Result(st, <<>>)

handlePartUpdated(ev, st) ==
  LET part == ev.part
      delta == ev.delta
      messageRole == MapGet(st.messageRoles, part.messageID, Undefined)
  IN IF messageRole = "user" THEN Result(st, <<>>)
     ELSE CASE part.type = "text" ->
                 IF part.synthetic \/ part.ignored THEN Result(st, <<>>)
                 ELSE handleTextPart(part, delta, st)
            [] part.type = "reasoning" -> handleReasoningPart(part, delta, st)
            [] part.type = "tool" -> handleToolPart(part, st)
            [] part.type = "step-finish" -> Result(handleStepFinishPart(part, st), <<>>)
            [] part.type = "step-start" -> Result(st, <<>>)
            [] part.type = "file" -> Result(st, handleFilePart(part))
            [] OTHER -> Result(st, <<>>)

convertEventToStreamParts(ev, st) ==
  CASE ev.type = "message.part.updated" -> handlePartUpdated(ev, st)
    [] ev.type = "message.updated" ->
         Result([st EXCEPT !.messageRoles =
                   MapSet(st.messageRoles, ev.info.id, ev.info.role)], <<>>)
    [] ev.type \in {"session.status", "session.idle"} -> Result(st, <<>>)
    [] ev.type = "session.diff" -> Result(st, <<>>)
    [] OTHER -> Result(st, <<>>)

\* Reading a property of undefined or null raises a TypeError; reading one of a
\* primitive yields undefined.  The outcomes (raised or not) of reading a
\* property of a value of the given shape: "absent" is undefined, "nonobject"
\* is null or a primitive.
ReadRaises(shape) ==
  CASE shape = "object" -> {FALSE}
    [] shape = "absent" -> {TRUE}
    [] OTHER -> {TRUE, FALSE}

\* isSessionComplete: properties.sessionID is read of whatever properties is,
\* and status.type of whatever properties.status is once the session id matched
isSessionComplete_raises(ev, sid) ==
  IF ev.type = "session.status" THEN
    IF ev.props # "object" THEN ReadRaises(ev.props)
    ELSE {ev.sessionID = sid /\ "status" \in ev.lacks}
  ELSE IF ev.type = "session.idle" THEN ReadRaises(ev.props)
  ELSE {FALSE}

\* handlePartUpdated and the handlers it calls: part.messageID is read of
\* whatever properties.part is; handleToolPart reads state.status and
\* handleStepFinishPart reads tokens.input .. tokens.cache.read unguarded
handlePartUpdated_raises(ev, st) ==
  LET part == ev.part
  IN IF ev.props # "object" \/ part.shape = "absent" THEN {TRUE}
     ELSE IF part.shape # "object" THEN ReadRaises(part.shape)
     ELSE IF MapGet(st.messageRoles, part.messageID, Undefined) = "user" THEN {FALSE}
     ELSE CASE part.type = "tool" -> {"state" \in part.lacks}
            [] part.type = "step-finish" ->
                 {"tokens" \in part.lacks \/ "cache" \in part.lacks}
            [] OTHER -> {FALSE}

\* convertEventToStreamParts: for message.updated info.id is read of whatever
\* properties.info is
convertEventToStreamParts_raises(ev, st) ==
  CASE ev.type = "message.part.updated" -> handlePartUpdated_raises(ev, st)
    [] ev.type = "message.updated" ->
         IF ev.props # "object" \/ ev.info.shape = "absent" THEN {TRUE}
         ELSE ReadRaises(ev.info.shape)
    [] OTHER -> {FALSE}

FinishUsage(st) ==
  [inputTokens |->
     [total |-> st.usage.inputTokens + st.usage.cachedInputTokens
                  + st.usage.cachedWriteTokens,
      noCache |-> st.usage.inputTokens,
      cacheRead |-> st.usage.cachedInputTokens,
      cacheWrite |-> st.usage.cachedWriteTokens],
   outputTokens |->
     [total |-> st.usage.outputTokens, text |-> Undefined,
      reasoning |-> st.usage.reasoningTokens],
   raw |->
     [input_tokens |-> st.usage.inputTokens,
      output_tokens |-> st.usage.outputTokens,
      reasoning_tokens |-> st.usage.reasoningTokens,
      cache_read_input_tokens |-> st.usage.cachedInputTokens,
      cache_write_input_tokens |-> st.usage.cachedWriteTokens,
      total_cost |-> st.usage.totalCost]]

FinishPart(st, finishReason, sid) ==
  [type |-> "finish", usage |-> FinishUsage(st), finishReason |-> finishReason,
   providerMetadata |-> [opencode |-> [sessionId |-> sid, cost |-> st.usage.totalCost]]]

createFinishParts_noClose(st, finishReason, sid) ==
  << FinishPart(st, finishReason, sid) >>

createFinishParts(st, finishReason, sid) ==
  (IF st.textStarted /\ TruthyId(st.textPartId)
   THEN << [type |-> "text-end", id |-> st.textPartId] >> ELSE <<>>)
  \o (IF st.reasoningStarted /\ TruthyId(st.reasoningPartId)
      THEN << [type |-> "reasoning-end", id |-> st.reasoningPartId] >> ELSE <<>>)
  \o << FinishPart(st, finishReason, sid) >>

\* warnings is the sequence of warning strings collected during request setup
createStreamStartPart(warnings) ==
  [type |-> "stream-start",
   warnings |-> [i \in 1..Len(warnings) |-> [type |-> "other", message |-> warnings[i]]]]

(***************************************************************************)
(* Values every specification below gives the variables it does not use.   *)
(***************************************************************************)
IdleClassifier ==
  /\ message = NoInfo /\ reason = "pending"
  /\ error = UndefinedError /\ errorReason = "pending"

IdleCorrelator == event = NoEvent /\ owned = FALSE

IdleTranslator == state = createStreamState /\ fed = <<>> /\ out = <<>>

IdleRelay ==
  /\ lastMessageInfo = NoInfo /\ abortSignal = FALSE /\ promptState = "none"
  /\ abortCalls = 0 /\ abortResult = "none" /\ closed = FALSE

\* no model instance in use, no request made
IdleInstance ==
  inst = [sessionId |-> Undefined,
          settings |-> [sessionId |-> Undefined, createNewSession |-> FALSE]]

IdleNet == net = [getClient |-> 0, create |-> 0, prompt |-> 0]

IdleRequest ==
  req = [kind |-> "none", pc |-> "idle", preAborted |-> FALSE,
         outcome |-> "none", error |-> NullError, wrapped |-> FALSE, n |-> 0]

IdleGenerate ==
  generated = [parts |-> <<>>, info |-> NoInfo, called |-> FALSE,
               result |-> Undefined]

\* no client manager exists
IdleManager ==
  mgr = [instance |-> 0, objs |-> <<>>, promises |-> <<>>, calls |-> <<>>,
         got |-> <<>>]

IdleOthers == IdleInstance /\ IdleNet /\ IdleRequest /\ IdleGenerate /\ IdleManager

otherVars == <<inst, net, req, generated, mgr>>

classifierVars == <<message, reason, error, errorReason>>
correlatorVars == <<event, owned>>
translatorVars == <<state, fed, out>>
relayVars == <<lastMessageInfo, abortSignal, promptState, abortCalls, abortResult,
              closed>>

(***************************************************************************)
(* SpecClassify: the finish-reason classifier applied to every descriptor  *)
(* and every raw error of the sets below.                                  *)
(***************************************************************************)
S_END_TURN   == <<"E","N","D","_","T","U","R","N">>
S_MAX_TOKENS == <<"M","A","X","_","T","O","K","E","N","S">>
S_Tool_Use   == <<"T","o","o","l","_","U","s","e">>
S_Stop       == <<"S","t","o","p">>
S_SAFETY     == <<"S","A","F","E","T","Y">>
S_Error      == <<"E","r","r","o","r">>
S_unknown_value == <<"u","n","k","n","o","w","n","_","v","a","l","u","e">>
S_aborted    == <<"a","b","o","r","t","e","d">>

FinishStrings ==
  {<<>>, S_end_turn, S_stop, S_end, S_max_tokens, S_length, S_tool_use,
   S_tool_calls, S_content_filter, S_safety, S_error,
   S_END_TURN, S_MAX_TOKENS, S_Tool_Use, S_Stop, S_SAFETY, S_Error,
   S_unknown_value, S_aborted}

ErrorNames ==
  {"MessageAbortedError", "MessageOutputLengthError", "ProviderAuthError",
   "APIError", "UnknownError", "SomeOtherError"}

Descriptors ==
  {NoInfo} \cup
  {Info("m1", "A", "assistant", e, f) : e \in ErrorNames \cup {Undefined},
                                         f \in FinishStrings}

ThrownErrors ==
  {NullError, UndefinedError} \cup
  {ErrorObject(n, m) :
     n \in {Undefined, "AbortError", "MessageAbortedError",
            "MessageOutputLengthError", "NetworkError"},
     m \in {Undefined, "Max tokens exceeded", "Connection failed",
            "The operation was aborted"}}

InitClassify ==
  /\ pc = "classify"
  /\ message \in Descriptors /\ reason = "pending"
  /\ error \in ThrownErrors /\ errorReason = "pending"
  /\ sessionId = "A"
  /\ IdleCorrelator /\ IdleTranslator /\ IdleRelay /\ IdleOthers

CallMapOpencodeFinishReason ==
  /\ pc = "classify" /\ reason = "pending"
  /\ reason' = mapOpencodeFinishReason(message)
  /\ UNCHANGED <<otherVars, pc, message, error, errorReason, sessionId,
                 correlatorVars, translatorVars, relayVars>>

CallMapErrorToFinishReasonFromUnknown ==
  /\ pc = "classify" /\ errorReason = "pending"
  /\ errorReason' = mapErrorToFinishReasonFromUnknown(error)
  /\ UNCHANGED <<otherVars, pc, message, reason, error, sessionId,
                 correlatorVars, translatorVars, relayVars>>

NextClassify == CallMapOpencodeFinishReason \/ CallMapErrorToFinishReasonFromUnknown

SpecClassify == InitClassify /\ [][NextClassify]_vars

\* C4: a descriptor with an error is classified by the error name alone, whatever
\* its finish field: MessageAbortedError gives stop, MessageOutputLengthError gives
\* length, every other name gives error.
C4_ErrorNameDecides ==
  (reason # "pending" /\ message.shape = "object" /\ message.error # Undefined) =>
     /\ message.error = "MessageAbortedError" => reason = "stop"
     /\ message.error = "MessageOutputLengthError" => reason = "length"
     /\ message.error \notin {"MessageAbortedError", "MessageOutputLengthError"}
          => reason = "error"

\* {error: APIError, finish: end_turn} has been classified (as error)
C4_Witness ==
  /\ reason = "error"
  /\ message.shape = "object" /\ message.error = "APIError"
  /\ message.finish = S_end_turn

C6_ThrownClassification ==
  errorReason # "pending" =>
    /\ (error.kind = "object" /\ error.name \in {"AbortError", "MessageAbortedError"})
         => errorReason = "stop"
    /\ (error.kind = "object" /\ ~isAbortError(error)
          /\ (error.name = "MessageOutputLengthError"
                \/ error.message = "Max tokens exceeded"))
         => errorReason = "length"
    /\ error.kind \in {"null", "undefined"} => errorReason = "error"
    /\ (error.kind = "object" /\ ~isAbortError(error) /\ ~isOutputLengthError(error))
         => errorReason = "error"

\* an error that is both an abort error and a max-tokens error was classified
C6_Witness ==
  /\ errorReason = "stop"
  /\ error.kind = "object" /\ error.name = "AbortError"
  /\ error.message = "Max tokens exceeded"

(***************************************************************************)
(* SpecCorrelate: isEventForSession applied to every event shape below.    *)
(***************************************************************************)
SessionIds == {"A", "B"}

\* a part / message descriptor of any shape, with or without session attribution
CorrelateParts ==
  {NoPart, [NoPart EXCEPT !.shape = "nonobject"]} \cup
  {TextPart("p1", s, "m1", <<"a">>) : s \in SessionIds \cup {Undefined}}

CorrelateInfos ==
  {NoInfo, [NoInfo EXCEPT !.shape = "nonobject"]} \cup
  {Info("m1", s, "assistant", Undefined, <<>>) : s \in SessionIds \cup {Undefined}}

CorrelateEvents ==
  {[NoEvent EXCEPT !.type = "custom", !.props = pr, !.part = p, !.info = i,
                   !.sessionID = s] :
     pr \in {"object", "nonobject"}, p \in CorrelateParts, i \in CorrelateInfos,
     s \in SessionIds \cup {Undefined}}

InitCorrelate ==
  /\ pc = "correlate"
  /\ event \in CorrelateEvents /\ sessionId \in SessionIds /\ owned = FALSE
  /\ IdleClassifier /\ IdleTranslator /\ IdleRelay /\ IdleOthers

CallIsEventForSession ==
  /\ pc = "correlate"
  /\ owned' = isEventForSession(event, sessionId)
  /\ pc' = "correlated"
  /\ UNCHANGED <<otherVars, event, sessionId, classifierVars, translatorVars, relayVars>>

NextCorrelate == CallIsEventForSession

SpecCorrelate == InitCorrelate /\ [][NextCorrelate]_vars

\* C7: ownership is decided by the first attribution present, in the order nested
\* part, nested message info, direct sessionID: the result is true exactly when that
\* one equals the session id, and false when there is none.
C7_FirstAttributionDecides ==
  pc = "correlated" =>
    LET hasPart == event.props = "object" /\ event.part.shape = "object"
        hasInfo == event.props = "object" /\ event.info.shape = "object"
        hasDirect == event.props = "object" /\ event.sessionID # Undefined
    IN /\ hasPart => (owned <=> event.part.sessionID = sessionId)
       /\ (~hasPart /\ hasInfo) => (owned <=> event.info.sessionID = sessionId)
       /\ (~hasPart /\ ~hasInfo /\ hasDirect) => (owned <=> event.sessionID = sessionId)
       /\ (~hasPart /\ ~hasInfo /\ ~hasDirect) => ~owned

\* a part of session A inside an event whose other session fields say B, owned for A
C7_Witness ==
  /\ pc = "correlated" /\ owned /\ sessionId = "A"
  /\ event.props = "object" /\ event.part.shape = "object"
  /\ event.part.sessionID = "A"
  /\ event.info.shape = "object" /\ event.info.sessionID = "B"
  /\ event.sessionID = "B"

(***************************************************************************)
(* The translator driven event by event.  Translate is one call of         *)
(* convertEventToStreamParts whose parts are appended to the outbound      *)
(* stream; CloseStream is the call of createFinishParts that ends it.      *)
(***************************************************************************)
Translate(ev) ==
  /\ pc = "translating"
  /\ LET r == convertEventToStreamParts(ev, state)
     IN /\ state' = r.state
        /\ out' = out \o r.parts
  /\ fed' = Append(fed, ev)
  /\ event' = ev
  /\ UNCHANGED <<otherVars, pc, sessionId, owned, classifierVars, relayVars>>

CloseStream ==
  /\ pc = "translating"
  /\ out' = out \o createFinishParts(state, "stop", sessionId)
  /\ pc' = "finished"
  /\ UNCHANGED <<otherVars, state, fed, event, sessionId, owned, classifierVars, relayVars>>

InitTranslate ==
  /\ pc = "translating"
  /\ sessionId = "A"
  /\ IdleClassifier /\ IdleCorrelator /\ IdleTranslator /\ IdleRelay /\ IdleOthers

\* the parts of `parts` of the given type, in order
RECURSIVE PartsOfType(_, _)
PartsOfType(parts, type) ==
  IF parts = <<>> THEN <<>>
  ELSE (IF Head(parts).type = type THEN << Head(parts) >> ELSE <<>>)
         \o PartsOfType(Tail(parts), type)

\* the concatenation of the delta strings of a sequence of delta parts
RECURSIVE ConcatDeltas(_)
ConcatDeltas(parts) ==
  IF parts = <<>> THEN <<>> ELSE Head(parts).delta \o ConcatDeltas(Tail(parts))

(***************************************************************************)
(* SpecSpan: any sequence of at most MaxSpanEvents text and reasoning      *)
(* part-updated events, explicit deltas and full-text snapshots mixed,     *)
(* over two part ids of each kind, closed by createFinishParts at any      *)
(* point.                                                                  *)
(***************************************************************************)
MaxSpanEvents == 3

T_a   == <<"a">>
T_ab  == <<"a","b">>
T_abb == <<"a","b","b">>
T_b   == <<"b">>
T_ba  == <<"b","a">>

TextSnapshots == {<<>>, T_a, T_ab, T_abb, T_b, T_ba}
ReasoningSnapshots == {T_a, T_ab}

\* An event with an explicit delta carries the delta and a text the code does
\* not read; a snapshot event carries the full text and no delta.
SpanEvents ==
  {EventMessagePartUpdated(TextPart(id, "A", "m1", t), <<>>) :
     id \in {"p1", "p2"}, t \in TextSnapshots}
  \cup {EventMessagePartUpdated(TextPart(id, "A", "m1", T_a), T_a) :
     id \in {"p1", "p2"}}
  \cup {EventMessagePartUpdated(ReasoningPart(id, "A", "m1", t), <<>>) :
     id \in {"r1", "r2"}, t \in ReasoningSnapshots}
  \cup {EventMessagePartUpdated(ReasoningPart(id, "A", "m1", T_a), T_a) :
     id \in {"r1", "r2"}}

SpanEvent == \E ev \in SpanEvents : Len(fed) < MaxSpanEvents /\ Translate(ev)

SpanClose == CloseStream

NextSpan == SpanEvent \/ SpanClose

SpecSpan == InitTranslate /\ [][NextSpan]_vars

\* Reads the outbound parts from index i on, with the id of the open text span
\* and of the open reasoning span (Undefined: none open); ok is FALSE when a part
\* breaks the span shape: a start while a span of its kind is open, a delta or an
\* end whose id is not the open span's, or a finish that is not last or that
\* leaves a span open.
RECURSIVE SpanScan(_, _, _, _)
SpanScan(parts, i, openText, openReasoning) ==
  IF i > Len(parts)
  THEN [ok |-> TRUE, text |-> openText, reasoning |-> openReasoning]
  ELSE
    LET p == parts[i]
        bad == [ok |-> FALSE, text |-> openText, reasoning |-> openReasoning]
    IN CASE p.type = "text-start" ->
              IF openText = Undefined
              THEN SpanScan(parts, i + 1, p.id, openReasoning) ELSE bad
         [] p.type = "text-delta" ->
              IF openText = p.id
              THEN SpanScan(parts, i + 1, openText, openReasoning) ELSE bad
         [] p.type = "text-end" ->
              IF openText = p.id
              THEN SpanScan(parts, i + 1, Undefined, openReasoning) ELSE bad
         [] p.type = "reasoning-start" ->
              IF openReasoning = Undefined
              THEN SpanScan(parts, i + 1, openText, p.id) ELSE bad
         [] p.type = "reasoning-delta" ->
              IF openReasoning = p.id
              THEN SpanScan(parts, i + 1, openText, openReasoning) ELSE bad
         [] p.type = "reasoning-end" ->
              IF openReasoning = p.id
              THEN SpanScan(parts, i + 1, openText, Undefined) ELSE bad
         [] p.type = "finish" ->
              IF openText = Undefined /\ openReasoning = Undefined /\ i = Len(parts)
              THEN SpanScan(parts, i + 1, openText, openReasoning) ELSE bad
         [] OTHER -> SpanScan(parts, i + 1, openText, openReasoning)

\* C1: the outbound parts are well-formed per kind at every point: a delta carries
\* the id of the open span of its kind, at most one text and one reasoning span
\* is open, a span is ended before another of its kind starts, and after
\* createFinishParts every span is ended and finish is the last part.
C1_SpanWellFormed ==
  /\ SpanScan(out, 1, Undefined, Undefined).ok
  /\ pc = "finished" =>
       /\ out # <<>> /\ out[Len(out)].type = "finish"
       /\ Len(PartsOfType(out, "finish")) = 1

\* a text span force-closed by a second part id, and the second closed at finish,
\* next to a reasoning span closed at finish
C1_Witness ==
  /\ pc = "finished"
  /\ Len(PartsOfType(out, "text-end")) = 2
  /\ Len(PartsOfType(out, "text-delta")) >= 1
  /\ Len(PartsOfType(out, "reasoning-end")) = 1

\* fed is a run of snapshot events (no explicit delta) of one part of the given
\* type, each snapshot a prefix-extension of the one before
IsSnapshotChain(events, type) ==
  /\ events # <<>>
  /\ \A i \in 1..Len(events) :
       /\ events[i].type = "message.part.updated"
       /\ events[i].part.type = type
       /\ events[i].part.id = events[1].part.id
       /\ events[i].delta = <<>>
       /\ i > 1 => startsWith(events[i].part.text, events[i-1].part.text)

\* the number of snapshots of the chain that are longer than the one before
GrowthSteps(events) ==
  Cardinality({i \in 1..Len(events) :
                 Len(events[i].part.text) > (IF i = 1 THEN 0
                                             ELSE Len(events[i-1].part.text))})

\* C2: for a chain of prefix-extending snapshots of one text (reasoning) part the
\* emitted text-deltas (reasoning-deltas) concatenate to the last snapshot, and
\* only a snapshot longer than its predecessor emits a delta (a repeated
\* snapshot emits none).
C2_SnapshotReconstruction ==
  /\ IsSnapshotChain(fed, "text") =>
       /\ ConcatDeltas(PartsOfType(out, "text-delta")) = fed[Len(fed)].part.text
       /\ Len(PartsOfType(out, "text-delta")) = GrowthSteps(fed)
  /\ IsSnapshotChain(fed, "reasoning") =>
       /\ ConcatDeltas(PartsOfType(out, "reasoning-delta")) = fed[Len(fed)].part.text
       /\ Len(PartsOfType(out, "reasoning-delta")) = GrowthSteps(fed)

\* the chain "a", "ab", "ab" of one text part has been translated
C2_Witness ==
  /\ IsSnapshotChain(fed, "text") /\ Len(fed) = 3
  /\ fed[1].part.text = T_a /\ fed[2].part.text = T_ab /\ fed[3].part.text = T_ab
  /\ Len(PartsOfType(out, "text-delta")) = 2

(***************************************************************************)
(* SpecTool: any sequence of at most MaxToolEvents tool part-updated       *)
(* events over two call ids, in any order of the four states.              *)
(***************************************************************************)
MaxToolEvents == 4

ToolCallIds == {"c1", "c2"}

ToolStates ==
  {ToolStatePending(<<>>),
   ToolStateRunning(<<>>, Undefined),
   ToolStateRunning(<<"a">>, "Run"),
   ToolStateCompleted(<<"a">>, "ok"),
   ToolStateError(<<"a">>, "boom")}

ToolEvents ==
  {EventMessagePartUpdated(ToolPart("t1", "A", "m1", c, "bash", ts), <<>>) :
     c \in ToolCallIds, ts \in ToolStates}

ToolEvent == \E ev \in ToolEvents : Len(fed) < MaxToolEvents /\ Translate(ev)

NextTool == ToolEvent

SpecTool == InitTranslate /\ [][NextTool]_vars

\* the call id an outbound tool part is about
ToolPartCallId(p) ==
  IF p.type \in {"tool-call", "tool-result"} THEN p.toolCallId ELSE p.id

\* the number of outbound parts of the given type for the given call id
CountToolParts(parts, type, callID) ==
  Cardinality({i \in 1..Len(parts) :
                 parts[i].type = type /\ ToolPartCallId(parts[i]) = callID})

\* a tool event in a terminal state (completed or error) for the call id was fed
TerminalFed(events, callID) ==
  \E i \in 1..Len(events) :
    /\ events[i].part.callID = callID
    /\ events[i].part.state.status \in {"completed", "error"}

\* C3: per call id, at most one tool-input-start, one tool-input-end, one
\* tool-call and one tool-result are ever emitted, whatever the order and
\* repetition of states; the first terminal state emits what is missing of the
\* four, so a replayed terminal state (completed or error) adds nothing.
C3_ToolLatches ==
  \A c \in ToolCallIds :
    \A type \in {"tool-input-start", "tool-input-end", "tool-call", "tool-result"} :
      /\ CountToolParts(out, type, c) <= 1
      /\ TerminalFed(fed, c) => CountToolParts(out, type, c) = 1

\* completed, then error, then completed again for one call id
C3_Witness ==
  /\ Len(fed) >= 3
  /\ \A i \in 1..3 : fed[i].part.callID = "c1"
  /\ fed[1].part.state.status = "completed"
  /\ fed[2].part.state.status = "error"
  /\ fed[3].part.state.status = "completed"
  /\ CountToolParts(out, "tool-result", "c1") = 1

(***************************************************************************)
(* SpecRole: message-updated events that tag two messages user or          *)
(* assistant, interleaved in any order with text, reasoning, tool and      *)
(* step-finish parts of those messages; at most MaxRoleEvents events.      *)
(***************************************************************************)
MaxRoleEvents == 3

RoleMessageIds == {"m1", "m2"}

StepTokens ==
  [input |-> 5, output |-> 2, reasoning |-> 1, cache |-> [read |-> 3, write |-> 1]]

RoleParts(m) ==
  {TextPart("p1", "A", m, T_a),
   ReasoningPart("r1", "A", m, T_a),
   ToolPart("t1", "A", m, "c1", "bash", ToolStateCompleted(<<"a">>, "ok")),
   StepFinishPart("s1", "A", m, StepTokens, 1)}

RoleEvents ==
  {EventMessageUpdated(Info(m, "A", r, Undefined, <<>>)) :
     m \in RoleMessageIds, r \in {"user", "assistant"}}
  \cup {EventMessagePartUpdated(p, IF p.type \in {"text", "reasoning"} THEN T_a ELSE <<>>) :
     p \in UNION {RoleParts(m) : m \in RoleMessageIds}}

RoleEvent == \E ev \in RoleEvents : Len(fed) < MaxRoleEvents /\ Translate(ev)

NextRole == RoleEvent

SpecRole == InitTranslate /\ [][NextRole]_vars

\* C8: a part-updated event whose part belongs to a message the role table
\* records as user emits nothing and leaves the whole stream state unchanged; on
\* a message recorded as assistant the same part has its normal effect: a text
\* (reasoning) part ends the stream with its text-delta (reasoning-delta), a
\* completed tool part of a new call with its tool-result, and a step-finish part
\* adds its tokens to the usage.
C8_UserPartsSuppressed ==
  [][ (fed' # fed /\ event'.type = "message.part.updated") =>
        LET part == event'.part
            role == MapGet(state.messageRoles, part.messageID, Undefined)
            last == out'[Len(out')]
        IN /\ role = "user" => (out' = out /\ state' = state)
           /\ role = "assistant" =>
                /\ part.type = "text" =>
                     /\ Len(out') > Len(out)
                     /\ last = [type |-> "text-delta", id |-> part.id,
                                delta |-> event'.delta]
                /\ part.type = "reasoning" =>
                     /\ Len(out') > Len(out)
                     /\ last = [type |-> "reasoning-delta", id |-> part.id,
                                delta |-> event'.delta]
                /\ (part.type = "tool" /\ ~MapHas(state.toolStates, part.callID)) =>
                     /\ Len(out') = Len(out) + 4
                     /\ last.type = "tool-result"
                /\ part.type = "step-finish" =>
                     /\ out' = out
                     /\ state'.usage.outputTokens
                          = state.usage.outputTokens + part.tokens.output
    ]_vars

\* m1 was tagged user, then a text part and a step-finish part of m1 were fed:
\* nothing came out and the usage is still zero
C8_Witness ==
  /\ Len(fed) = 3
  /\ fed[1] = EventMessageUpdated(Info("m1", "A", "user", Undefined, <<>>))
  /\ fed[2].type = "message.part.updated" /\ fed[2].part.messageID = "m1"
  /\ fed[2].part.type = "text"
  /\ fed[3].type = "message.part.updated" /\ fed[3].part.messageID = "m1"
  /\ fed[3].part.type = "step-finish"
  /\ out = <<>>
  /\ state.usage = createStreamState.usage

(***************************************************************************)
(* OpencodeLanguageModel.doStream: the body of the ReadableStream's        *)
(* start(controller).  pc is the await the body is suspended at:           *)
(*   "start"        start() has not run yet                                *)
(*   "subscribing"  stream-start enqueued, awaiting client.event.subscribe *)
(*   "relaying"     awaiting the next event of the feed (for await)        *)
(*   "aborting"     awaiting client.session.abort after the abort check    *)
(*   "closing"      left the loop by break, awaiting the feed's return()   *)
(*   "closed"       controller.close() has run                             *)
(* The rejection callback of the un-awaited session.prompt runs between    *)
(* any two of these steps.                                                 *)
(***************************************************************************)
ErrorPart(err) == [type |-> "error", error |-> err]

\* One iteration of the for-await loop on the event the feed delivered: the
\* abort check, the session filter, the translation, the tracking of the last
\* assistant message and the completion check.  Yields the parts enqueued and
\* where the body is suspended next.
relayIteration_anyRole(ev, st, lmi, aborted, sid) ==
  IF aborted
  THEN [pc |-> "aborting", state |-> st, parts |-> <<>>, lastMessageInfo |-> lmi]
  ELSE IF ~isEventForSession(ev, sid)
  THEN [pc |-> "relaying", state |-> st, parts |-> <<>>, lastMessageInfo |-> lmi]
  ELSE
    LET r == convertEventToStreamParts(ev, st)
        info == IF ev.type = "message.updated" THEN ev.info ELSE lmi
    IN IF isSessionComplete(ev, sid)
       THEN [pc |-> "closing", state |-> r.state,
             parts |-> r.parts
                \o createFinishParts(r.state, mapOpencodeFinishReason(info), sid),
             lastMessageInfo |-> info]
       ELSE [pc |-> "relaying", state |-> r.state, parts |-> r.parts,
             lastMessageInfo |-> info]

relayIteration_noFilter(ev, st, lmi, aborted, sid) ==
  IF aborted
  THEN [pc |-> "aborting", state |-> st, parts |-> <<>>, lastMessageInfo |-> lmi]
  ELSE
    LET r == convertEventToStreamParts(ev, st)
        info == IF ev.type = "message.updated" /\ ev.info.role = "assistant"
                THEN ev.info ELSE lmi
    IN IF isSessionComplete(ev, sid)
       THEN [pc |-> "closing", state |-> r.state,
             parts |-> r.parts
                \o createFinishParts(r.state, mapOpencodeFinishReason(info), sid),
             lastMessageInfo |-> info]
       ELSE [pc |-> "relaying", state |-> r.state, parts |-> r.parts,
             lastMessageInfo |-> info]

relayIteration_noBreak(ev, st, lmi, aborted, sid) ==
  IF aborted
  THEN [pc |-> "aborting", state |-> st, parts |-> <<>>, lastMessageInfo |-> lmi]
  ELSE IF ~isEventForSession(ev, sid)
  THEN [pc |-> "relaying", state |-> st, parts |-> <<>>, lastMessageInfo |-> lmi]
  ELSE
    LET r == convertEventToStreamParts(ev, st)
        info == IF ev.type = "message.updated" /\ ev.info.role = "assistant"
                THEN ev.info ELSE lmi
    IN IF isSessionComplete(ev, sid)
       THEN [pc |-> "relaying", state |-> r.state,
             parts |-> r.parts
                \o createFinishParts(r.state, mapOpencodeFinishReason(info), sid),
             lastMessageInfo |-> info]
       ELSE [pc |-> "relaying", state |-> r.state, parts |-> r.parts,
             lastMessageInfo |-> info]

relayIteration(ev, st, lmi, aborted, sid) ==
  IF aborted
  THEN [pc |-> "aborting", state |-> st, parts |-> <<>>, lastMessageInfo |-> lmi]
  ELSE IF ~isEventForSession(ev, sid)
  THEN [pc |-> "relaying", state |-> st, parts |-> <<>>, lastMessageInfo |-> lmi]
  ELSE
    LET r == convertEventToStreamParts(ev, st)
        info == IF ev.type = "message.updated" /\ ev.info.role = "assistant"
                THEN ev.info ELSE lmi
    IN IF isSessionComplete(ev, sid)
       THEN [pc |-> "closing", state |-> r.state,
             parts |-> r.parts
                \o createFinishParts(r.state, mapOpencodeFinishReason(info), sid),
             lastMessageInfo |-> info]
       ELSE [pc |-> "relaying", state |-> r.state, parts |-> r.parts,
             lastMessageInfo |-> info]

\* warnings collected during request setup
WarningLists == {<<>>, << "Custom tool definitions are ignored." >>}

\* start(controller) runs: stream-start is enqueued and subscribe is called
StreamStart ==
  /\ pc = "start"
  /\ \E w \in WarningLists : out' = << createStreamStartPart(w) >>
  /\ pc' = "subscribing"
  /\ UNCHANGED <<otherVars, state, fed, event, sessionId, owned, classifierVars, relayVars>>

\* subscribe resolved with a stream: the prompt is submitted, not awaited, and
\* the stream state is created
SubscribeOk ==
  /\ pc = "subscribing"
  /\ promptState' = "pending"
  /\ state' = createStreamState
  /\ lastMessageInfo' = NoInfo
  /\ pc' = "relaying"
  /\ UNCHANGED <<otherVars, fed, out, event, sessionId, owned, classifierVars,
                 abortSignal, abortCalls, abortResult, closed>>

\* what the catch block of start() may catch from the subscription: the
\* error thrown when subscribe yields no stream, a rejection of subscribe by
\* the transport, a rejection by an abort error
SubscribeErrors ==
  {ErrorObject("Error", "Failed to subscribe to events"),
   ErrorObject("NetworkError", "Connection failed"),
   ErrorObject("AbortError", Undefined)}

\* subscribe rejected or resolved without a stream: catch enqueues an error
\* part unless it caught an abort error, then finally closes; error keeps the
\* error caught
SubscribeFail_promptFirst ==
  /\ pc = "subscribing"
  /\ promptState' = "pending"
  /\ \E e \in SubscribeErrors :
       /\ error' = e
       /\ out' = IF isAbortError(e) THEN out ELSE Append(out, ErrorPart("subscribe"))
  /\ closed' = TRUE
  /\ pc' = "closed"
  /\ UNCHANGED <<otherVars, state, fed, event, sessionId, owned, message, reason,
                 errorReason, lastMessageInfo, abortSignal, abortCalls,
                 abortResult>>

SubscribeFail ==
  /\ pc = "subscribing"
  /\ \E e \in SubscribeErrors :
       /\ error' = e
       /\ out' = IF isAbortError(e) THEN out ELSE Append(out, ErrorPart("subscribe"))
  /\ closed' = TRUE
  /\ pc' = "closed"
  /\ UNCHANGED <<otherVars, state, fed, event, sessionId, owned, message, reason,
                 errorReason, lastMessageInfo, abortSignal, promptState, abortCalls,
                 abortResult>>

\* the feed delivers an event and one loop iteration runs on it
RelayEvent_prepends(ev) ==
  /\ pc = "relaying"
  /\ LET r == relayIteration(ev, state, lastMessageInfo, abortSignal, sessionId)
     IN /\ state' = r.state
        /\ out' = << out[1] >> \o r.parts \o SubSeq(out, 2, Len(out))
        /\ lastMessageInfo' = r.lastMessageInfo
        /\ pc' = r.pc
        /\ abortCalls' = IF r.pc = "aborting" THEN abortCalls + 1 ELSE abortCalls
  /\ owned' = isEventForSession(ev, sessionId)
  /\ fed' = Append(fed, ev)
  /\ event' = ev
  /\ UNCHANGED <<otherVars, sessionId, classifierVars, abortSignal, promptState,
                 abortResult, closed>>

RelayEvent(ev) ==
  /\ pc = "relaying"
  /\ LET r == relayIteration(ev, state, lastMessageInfo, abortSignal, sessionId)
     IN /\ state' = r.state
        /\ out' = out \o r.parts
        /\ lastMessageInfo' = r.lastMessageInfo
        /\ pc' = r.pc
        /\ abortCalls' = IF r.pc = "aborting" THEN abortCalls + 1 ELSE abortCalls
  /\ owned' = isEventForSession(ev, sessionId)
  /\ fed' = Append(fed, ev)
  /\ event' = ev
  /\ UNCHANGED <<otherVars, sessionId, classifierVars, abortSignal, promptState,
                 abortResult, closed>>

\* session.abort settled: a rejection is caught by the empty catch around the
\* call, so fulfilled or rejected the loop is left by break
AbortSettled_propagates ==
  /\ pc = "aborting"
  /\ \E outcome \in {"fulfilled", "rejected"} :
       /\ abortResult' = outcome
       /\ IF outcome = "rejected"
          THEN /\ out' = Append(out, ErrorPart("abort"))
               /\ closed' = TRUE
               /\ pc' = "closed"
          ELSE /\ out' = out
               /\ closed' = closed
               /\ pc' = "closing"
  /\ UNCHANGED <<otherVars, state, fed, event, sessionId, owned, classifierVars,
                 lastMessageInfo, abortSignal, promptState, abortCalls>>

AbortSettled ==
  /\ pc = "aborting"
  /\ \E outcome \in {"fulfilled", "rejected"} : abortResult' = outcome
  /\ pc' = "closing"
  /\ UNCHANGED <<otherVars, state, fed, out, event, sessionId, owned, classifierVars,
                 lastMessageInfo, abortSignal, promptState, abortCalls, closed>>

\* the feed ends without a terminal event: the loop ends, finally closes
FeedEnd ==
  /\ pc = "relaying"
  /\ closed' = TRUE
  /\ pc' = "closed"
  /\ UNCHANGED <<otherVars, state, fed, out, event, sessionId, owned, classifierVars,
                 lastMessageInfo, abortSignal, promptState, abortCalls,
                 abortResult>>

\* the feed throws: catch enqueues an error part unless it is an abort error
FeedThrow ==
  /\ pc = "relaying"
  /\ \E e \in {ErrorObject("AbortError", Undefined),
               ErrorObject("NetworkError", "Connection failed")} :
       out' = IF isAbortError(e) THEN out ELSE Append(out, ErrorPart("feed"))
  /\ closed' = TRUE
  /\ pc' = "closed"
  /\ UNCHANGED <<otherVars, state, fed, event, sessionId, owned, classifierVars,
                 lastMessageInfo, abortSignal, promptState, abortCalls,
                 abortResult>>

\* after a break: finally closes the controller
StreamClose ==
  /\ pc = "closing"
  /\ closed' = TRUE
  /\ pc' = "closed"
  /\ UNCHANGED <<otherVars, state, fed, out, event, sessionId, owned, classifierVars,
                 lastMessageInfo, abortSignal, promptState, abortCalls,
                 abortResult>>

\* the caller raises the cancellation signal
RaiseAbort ==
  /\ pc # "closed" /\ ~abortSignal
  /\ abortSignal' = TRUE
  /\ UNCHANGED <<otherVars, pc, state, fed, out, event, sessionId, owned, classifierVars,
                 lastMessageInfo, promptState, abortCalls, abortResult,
                 closed>>

\* the prompt call fulfils
PromptResolve ==
  /\ promptState = "pending"
  /\ promptState' = "fulfilled"
  /\ UNCHANGED <<otherVars, pc, state, fed, out, event, sessionId, owned, classifierVars,
                 lastMessageInfo, abortSignal, abortCalls, abortResult, closed>>

\* the prompt call rejects: its catch callback enqueues an error part; on a closed
\* controller enqueue throws inside the callback and nothing is enqueued
PromptReject_terminates ==
  /\ promptState = "pending"
  /\ IF closed
     THEN promptState' = "rejected-enqueue-threw" /\ out' = out
     ELSE promptState' = "rejected" /\ out' = Append(out, ErrorPart("prompt"))
  /\ pc' = "closed"
  /\ closed' = TRUE
  /\ UNCHANGED <<otherVars, state, fed, event, sessionId, owned, classifierVars,
                 lastMessageInfo, abortSignal, abortCalls, abortResult>>

PromptReject ==
  /\ promptState = "pending"
  /\ IF closed
     THEN promptState' = "rejected-enqueue-threw" /\ out' = out
     ELSE promptState' = "rejected" /\ out' = Append(out, ErrorPart("prompt"))
  /\ UNCHANGED <<otherVars, pc, state, fed, event, sessionId, owned, classifierVars,
                 lastMessageInfo, abortSignal, abortCalls, abortResult, closed>>

InitStream ==
  /\ pc = "start"
  /\ sessionId = "A"
  /\ IdleClassifier /\ IdleCorrelator /\ IdleTranslator /\ IdleRelay /\ IdleOthers

(***************************************************************************)
(* SpecStream: one doStream request for session A over any feed of at most *)
(* MaxFeed events of StreamEvents (content of session A, both terminal     *)
(* signals, an idle signal of session B), with the caller's cancellation   *)
(* and the settling of the prompt call arriving at any point.              *)
(***************************************************************************)
MaxFeed == 4

AssistantUpdated(fin) == EventMessageUpdated(Info("m1", "A", "assistant", Undefined, fin))

TextDelta(delta) == EventMessagePartUpdated(TextPart("p1", "A", "m1", delta), delta)

StepFinishN(n) ==
  EventMessagePartUpdated(
    StepFinishPart("s1", "A", "m1", [StepTokens EXCEPT !.output = n], 1), <<>>)

StepFinish == StepFinishN(2)

StreamEvents ==
  {AssistantUpdated(<<>>),
   AssistantUpdated(S_max_tokens),
   TextDelta(T_a),
   EventMessagePartUpdated(ReasoningPart("r1", "A", "m1", T_a), T_a),
   StepFinish,
   EventSessionIdle("A"),
   EventSessionStatus("A", "idle"),
   EventSessionIdle("B")}

FeedEvent == \E ev \in StreamEvents : Len(fed) < MaxFeed /\ RelayEvent(ev)

NextStream ==
  \/ StreamStart \/ SubscribeOk \/ SubscribeFail
  \/ FeedEvent \/ AbortSettled \/ FeedEnd \/ FeedThrow \/ StreamClose
  \/ RaiseAbort \/ PromptResolve \/ PromptReject

SpecStream == InitStream /\ [][NextStream]_vars

\* the event is a terminal signal of the session: session.status with status idle,
\* or session.idle
IsTerminalFor(ev, sid) ==
  /\ ev.props = "object" /\ ev.sessionID = sid
  /\ \/ ev.type = "session.idle"
     \/ ev.type = "session.status" /\ ev.status = "idle"

\* the descriptor of the last message-updated event with role assistant among
\* the events of the session, NoInfo when there is none
RECURSIVE LastAssistantInfo(_, _)
LastAssistantInfo(events, sid) ==
  IF events = <<>> THEN NoInfo
  ELSE LET ev == events[Len(events)]
       IN IF ev.type = "message.updated" /\ ev.info.sessionID = sid
             /\ ev.info.role = "assistant"
          THEN ev.info
          ELSE LastAssistantInfo(SubSeq(events, 1, Len(events) - 1), sid)

\* the sum of a token field ("input", "output", "reasoning") over the
\* step-finish parts of the session among the events
RECURSIVE SumStepFinish(_, _, _)
SumStepFinish(events, sid, field) ==
  IF events = <<>> THEN 0
  ELSE (IF Head(events).type = "message.part.updated"
           /\ Head(events).part.type = "step-finish"
           /\ Head(events).part.sessionID = sid
        THEN Head(events).part.tokens[field] ELSE 0)
       + SumStepFinish(Tail(events), sid, field)

HasFinish(parts) == \E i \in 1..Len(parts) : parts[i].type = "finish"

\* C10: the iteration that processes a terminal event of the session (cancellation
\* not signalled) appends exactly: text-end of the open text span if any,
\* reasoning-end of the open reasoning span if any, then one finish whose usage is
\* the sum of the step-finish parts received and whose reason classifies the last
\* assistant message descriptor received; it leaves the loop.  No inbound event is
\* processed once finish is out, and a stream never holds two finish parts.
C10_TerminalEmitsOneFinish ==
  /\ [](Len(PartsOfType(out, "finish")) <= 1)
  /\ [][HasFinish(out) => fed' = fed]_vars
  /\ [][ (fed' # fed /\ ~abortSignal /\ IsTerminalFor(event', sessionId)) =>
           LET open == SpanScan(out, 1, Undefined, Undefined)
               t == IF open.text # Undefined THEN 1 ELSE 0
               r == IF open.reasoning # Undefined THEN 1 ELSE 0
               f == out'[Len(out')]
           IN /\ Len(out') = Len(out) + t + r + 1
              /\ SubSeq(out', 1, Len(out)) = out
              /\ t = 1 => out'[Len(out) + 1] = [type |-> "text-end", id |-> open.text]
              /\ r = 1 => out'[Len(out) + t + 1]
                            = [type |-> "reasoning-end", id |-> open.reasoning]
              /\ f.type = "finish"
              /\ f.usage.outputTokens.total
                   = SumStepFinish(fed, sessionId, "output")
              /\ f.usage.inputTokens.noCache
                   = SumStepFinish(fed, sessionId, "input")
              /\ f.finishReason
                   = mapOpencodeFinishReason(LastAssistantInfo(fed, sessionId))
              /\ pc' = "closing"
     ]_vars

\* a terminal event arrived with a text span and a reasoning span open after an
\* assistant message that finished with max_tokens: both closed, then finish
C10_Witness ==
  /\ pc \in {"closing", "closed"} /\ Len(out) >= 3
  /\ out[Len(out) - 2].type = "text-end"
  /\ out[Len(out) - 1].type = "reasoning-end"
  /\ out[Len(out)].type = "finish"
  /\ out[Len(out)].finishReason = "length"
  /\ IsTerminalFor(fed[Len(fed)], sessionId)


(***************************************************************************)
(* SpecScenario: the same request over feeds of at most MaxScenarioFeed    *)
(* events drawn from the end-to-end scenario's events: the assistant       *)
(* message update, text deltas on one part, the step-finish part and the   *)
(* two terminal signals, in any order and number.                          *)
(***************************************************************************)
MaxScenarioFeed == 5

ScenarioEvents ==
  {AssistantUpdated(<<>>),
   TextDelta(T_a),
   TextDelta(T_b),
   StepFinishN(2),
   StepFinishN(3),
   EventSessionIdle("A"),
   EventSessionStatus("A", "idle")}

ScenarioFeedEvent ==
  \E ev \in ScenarioEvents : Len(fed) < MaxScenarioFeed /\ RelayEvent(ev)

NextScenario ==
  \/ StreamStart \/ SubscribeOk \/ SubscribeFail
  \/ ScenarioFeedEvent \/ AbortSettled \/ FeedEnd \/ FeedThrow \/ StreamClose
  \/ RaiseAbort \/ PromptResolve \/ PromptReject

SpecScenario == InitStream /\ [][NextScenario]_vars


\* the feed is exactly the end-to-end scenario: message-updated{assistant} without
\* error or finish, k >= 1 text events with explicit deltas on one part id, a
\* step-finish part, a terminal signal of the session
IsScenarioFeed(events, sid) ==
  LET k == Len(events) - 3
  IN /\ k >= 1
     /\ events[1].type = "message.updated"
     /\ events[1].info.role = "assistant" /\ events[1].info.sessionID = sid
     /\ events[1].info.error = Undefined /\ events[1].info.finish = <<>>
     /\ \A i \in 2..(k + 1) :
          /\ events[i].type = "message.part.updated"
          /\ events[i].part.type = "text" /\ events[i].part.sessionID = sid
          /\ events[i].part.id = events[2].part.id
          /\ Truthy(events[i].delta)
     /\ events[k + 2].type = "message.part.updated"
     /\ events[k + 2].part.type = "step-finish"
     /\ events[k + 2].part.sessionID = sid
     /\ IsTerminalFor(events[k + 3], sid)

\* C9: for the scenario feed, when the caller did not cancel and the prompt call
\* did not fail, the outbound stream is exactly stream-start, text-start,
\* text-delta(d1) .. text-delta(dk), text-end, finish, the finish carrying
\* usage.outputTokens.total = n and the reason stop.
C9_EndToEndScenario ==
  (IsScenarioFeed(fed, sessionId) /\ abortCalls = 0 /\ promptState # "rejected") =>
    LET k == Len(fed) - 3
        id == fed[2].part.id
        n == fed[k + 2].part.tokens.output
    IN /\ Len(out) = k + 4
       /\ out[1].type = "stream-start"
       /\ out[2] = [type |-> "text-start", id |-> id]
       /\ \A i \in 1..k :
            out[2 + i] = [type |-> "text-delta", id |-> id, delta |-> fed[1 + i].delta]
       /\ out[k + 3] = [type |-> "text-end", id |-> id]
       /\ out[k + 4].type = "finish"
       /\ out[k + 4].usage.outputTokens.total = n
       /\ out[k + 4].finishReason = "stop"

\* the scenario with the deltas "a", "b" and 3 output tokens has run to the close
C9_Witness ==
  /\ pc = "closed" /\ abortCalls = 0 /\ promptState # "rejected"
  /\ IsScenarioFeed(fed, sessionId) /\ Len(fed) = 5
  /\ fed[2].delta = T_a /\ fed[3].delta = T_b
  /\ fed[4].part.tokens.output = 3
  /\ Len(out) = 6 /\ out[6].usage.outputTokens.total = 3


(***************************************************************************)
(* The shape of a closed outbound stream (checked under SpecStream).       *)
(***************************************************************************)
HasError(parts) == \E i \in 1..Len(parts) : parts[i].type = "error"

\* C11: a closed outbound stream ends in its only finish part, or ends in an
\* error part, or holds neither a finish nor an error part, the last only when
\* the caller's cancellation signal was raised.
C11_ClosedStreamShape ==
  closed =>
    \/ out[Len(out)].type = "finish" /\ Len(PartsOfType(out, "finish")) = 1
    \/ out[Len(out)].type = "error"
    \/ ~HasFinish(out) /\ ~HasError(out) /\ abortSignal

\* C12: an outbound stream holds at most one terminal part (finish or error), and
\* nothing is enqueued once a terminal part is out or the stream is closed,
\* whatever the interleaving of the relay loop with the rejection callback of
\* the prompt call.
C12_SingleTerminal ==
  /\ [](Len(PartsOfType(out, "finish")) + Len(PartsOfType(out, "error")) <= 1)
  /\ [][(HasFinish(out) \/ HasError(out) \/ closed) => out' = out]_vars

(***************************************************************************)
(* SpecAbort: the doStream request over feeds of at most MaxAbortFeed      *)
(* events of StreamEvents, where a session.abort request that was sent     *)
(* settles and the finally block that follows a break runs.                *)
(***************************************************************************)
MaxAbortFeed == 3

AbortFeedEvent == \E ev \in StreamEvents : Len(fed) < MaxAbortFeed /\ RelayEvent(ev)

NextAbort ==
  \/ StreamStart \/ SubscribeOk \/ SubscribeFail
  \/ AbortFeedEvent \/ AbortSettled \/ FeedEnd \/ FeedThrow \/ StreamClose
  \/ RaiseAbort \/ PromptResolve \/ PromptReject

SpecAbort ==
  InitStream /\ [][NextAbort]_vars /\ WF_vars(AbortSettled) /\ WF_vars(StreamClose)

\* C13: the iteration that receives an event while the cancellation signal is
\* raised sends the one session.abort request of the stream and translates
\* nothing; however that request settles nothing is enqueued for it and the
\* loop is left; afterwards no event is taken from the feed, the stream state
\* is not touched, no finish is enqueued, and the stream is closed.
C13_AbortPath ==
  /\ [](abortCalls <= 1)
  /\ [][(fed' # fed /\ abortSignal) =>
          /\ abortCalls = 0 /\ abortCalls' = 1
          /\ out' = out /\ state' = state
          /\ pc' = "aborting"]_vars
  /\ [][abortResult' # abortResult =>
          out' = out /\ pc' = "closing" /\ closed' = FALSE]_vars
  /\ [][abortCalls = 1 =>
          /\ fed' = fed /\ state' = state
          /\ out' = out \/ out' = Append(out, ErrorPart("prompt"))]_vars
  /\ [](abortCalls = 1 => ~HasFinish(out))
  /\ (abortCalls = 1) ~> closed

\* the signal was raised after a text delta was relayed; the next event led to
\* a session.abort request that failed, and the stream was closed with the text
\* span open, without finish or error
C13_Witness ==
  /\ closed /\ abortCalls = 1 /\ abortResult = "rejected"
  /\ Len(fed) = 2 /\ fed[1] = TextDelta(T_a) /\ fed[2] = TextDelta(T_a)
  /\ Len(out) = 3 /\ out[3].type = "text-delta"


(***************************************************************************)
(* OpencodeLanguageModel: the requests of one model instance.              *)
(* inst.sessionId is this.sessionId, set by the constructor from           *)
(* settings.sessionId and by getOrCreateSession.  req.pc is the await the  *)
(* call is suspended at:                                                   *)
(*   "begun"      called, warnings and message conversion done             *)
(*   "session"    in getOrCreateSession                                    *)
(*   "creating"   getOrCreateSession awaits client.session.create          *)
(*   "client"     awaits clientManager.getClient                           *)
(*   "prompting"  doGenerate awaits client.session.prompt                  *)
(*   "done"       the call returned or threw                               *)
(* net counts the calls that leave the instance.                           *)
(***************************************************************************)
MaxRequests == 3

\* the id the server gives the k-th session it creates
CreatedId(k) == "s" \o ToString(k)

PresetSessionId == "P"

RequestError == ErrorObject("NetworkError", "Connection failed")

\* the call ends by throwing e: doGenerate's catch rethrows an abort error as it
\* is and wraps any other (wrapError); doStream has no catch around its setup
Throw(r, e) ==
  [r EXCEPT !.pc = "done", !.outcome = "threw", !.error = e,
            !.wrapped = (r.kind = "generate" /\ ~isAbortError(e))]

\* no call is in progress and the stream of the last doStream call, if any, is
\* closed
RequestFinished ==
  /\ req.pc \in {"idle", "done"}
  /\ pc \in {"nostream", "closed"}

\* doGenerate / doStream is called, with the cancellation signal raised or not;
\* the call's locals start fresh
BeginRequest(kind, aborted) ==
  /\ RequestFinished
  /\ req.n < MaxRequests
  /\ req' = [kind |-> kind, pc |-> "begun", preAborted |-> aborted,
             outcome |-> "pending", error |-> NullError, wrapped |-> FALSE,
             n |-> req.n + 1]
  /\ abortSignal' = aborted
  /\ pc' = "nostream"
  /\ sessionId' = Undefined
  /\ state' = createStreamState /\ fed' = <<>> /\ out' = <<>>
  /\ event' = NoEvent /\ owned' = FALSE
  /\ lastMessageInfo' = NoInfo /\ promptState' = "none"
  /\ abortCalls' = 0 /\ abortResult' = "none" /\ closed' = FALSE
  /\ UNCHANGED <<classifierVars, inst, net, generated, mgr>>

\* doGenerate: "Check if already aborted"; doStream has no such check
CheckAborted(kind, aborted, r) ==
  IF kind = "generate" /\ aborted
  THEN Throw(r, ErrorObject("AbortError", "Request aborted"))
  ELSE [r EXCEPT !.pc = "session"]

RequestCheckAborted ==
  /\ req.pc = "begun"
  /\ req' = CheckAborted(req.kind, abortSignal, req)
  /\ UNCHANGED <<pc, sessionId, classifierVars, correlatorVars, translatorVars,
                 relayVars, inst, net, generated, mgr>>

\* getOrCreateSession: the held id is used when there is one and
\* createNewSession is not set
ReusesSession_ignoresCreateNew(i) == TruthyId(i.sessionId)

ReusesSession(i) == TruthyId(i.sessionId) /\ ~i.settings.createNewSession

getSessionId(i) == i.sessionId

SessionReuse ==
  /\ req.pc = "session"
  /\ ReusesSession(inst)
  /\ sessionId' = inst.sessionId
  /\ req' = [req EXCEPT !.pc = "client"]
  /\ UNCHANGED <<pc, classifierVars, correlatorVars, translatorVars, relayVars,
                 inst, net, generated, mgr>>

\* getOrCreateSession: otherwise the client is fetched, which may fail
SessionGetClient ==
  /\ req.pc = "session"
  /\ ~ReusesSession(inst)
  /\ net' = [net EXCEPT !.getClient = @ + 1]
  /\ \/ req' = [req EXCEPT !.pc = "creating"]
     \/ req' = Throw(req, RequestError)
  /\ UNCHANGED <<pc, sessionId, classifierVars, correlatorVars, translatorVars,
                 relayVars, inst, generated, mgr>>

\* getOrCreateSession: client.session.create answers with an id, which replaces
\* the held one, or fails (rejects, or answers without id)
SessionCreate ==
  /\ req.pc = "creating"
  /\ net' = [net EXCEPT !.create = @ + 1]
  /\ \/ /\ inst' = [inst EXCEPT !.sessionId = CreatedId(net.create + 1)]
        /\ sessionId' = CreatedId(net.create + 1)
        /\ req' = [req EXCEPT !.pc = "client"]
     \/ /\ req' = Throw(req, ErrorObject("Error", "Failed to create session"))
        /\ UNCHANGED <<inst, sessionId>>
  /\ UNCHANGED <<pc, classifierVars, correlatorVars, translatorVars, relayVars,
                 generated, mgr>>

\* the call fetches the client; doGenerate then submits the prompt and awaits it,
\* doStream builds the stream and returns it
RequestGetClient ==
  /\ req.pc = "client"
  /\ \/ /\ req.kind = "generate"
        /\ net' = [net EXCEPT !.getClient = @ + 1, !.prompt = @ + 1]
        /\ req' = [req EXCEPT !.pc = "prompting"]
        /\ pc' = pc
     \/ /\ req.kind = "stream"
        /\ net' = [net EXCEPT !.getClient = @ + 1]
        /\ req' = [req EXCEPT !.pc = "done", !.outcome = "stream"]
        /\ pc' = "start"
     \/ /\ net' = [net EXCEPT !.getClient = @ + 1]
        /\ req' = Throw(req, RequestError)
        /\ pc' = pc
  /\ UNCHANGED <<sessionId, classifierVars, correlatorVars, translatorVars,
                 relayVars, inst, generated, mgr>>

\* doGenerate: the prompt call settles
GeneratePromptSettled ==
  /\ req.pc = "prompting"
  /\ \/ req' = [req EXCEPT !.pc = "done", !.outcome = "result"]
     \/ req' = Throw(req, ErrorObject("Error", "No response data from OpenCode"))
     \/ req' = Throw(req, RequestError)
  /\ UNCHANGED <<pc, sessionId, classifierVars, correlatorVars, translatorVars,
                 relayVars, inst, net, generated, mgr>>

\* the feed of a doStream call of this instance: the idle signal of its session or
\* of another one
RequestFeedEvent ==
  \E ev \in {EventSessionIdle(sessionId), EventSessionIdle("other")} :
    Len(fed) < 1 /\ RelayEvent(ev)

InitRequest ==
  /\ pc = "nostream"
  /\ sessionId = Undefined
  /\ IdleClassifier /\ IdleCorrelator /\ IdleTranslator /\ IdleRelay
  /\ \E preset \in {Undefined, PresetSessionId}, new \in BOOLEAN :
       inst = [sessionId |-> preset,
               settings |-> [sessionId |-> preset, createNewSession |-> new]]
  /\ IdleNet /\ IdleRequest /\ IdleGenerate /\ IdleManager

NextRequest ==
  \/ \E kind \in {"generate", "stream"}, aborted \in BOOLEAN :
       BeginRequest(kind, aborted)
  \/ RequestCheckAborted
  \/ SessionReuse \/ SessionGetClient \/ SessionCreate
  \/ RequestGetClient \/ GeneratePromptSettled
  \/ StreamStart \/ SubscribeOk \/ SubscribeFail
  \/ RequestFeedEvent \/ AbortSettled \/ FeedEnd \/ FeedThrow \/ StreamClose
  \/ RaiseAbort \/ PromptResolve \/ PromptReject

SpecRequest == InitRequest /\ [][NextRequest]_vars

\* C14: a call that begins with the cancellation signal already raised makes no
\* call that leaves the instance: no getClient, no session.create, no
\* event.subscribe, no session.prompt and no session.abort; doGenerate throws the
\* AbortError itself, not a wrapped error.
C14_PreAbortedShortCircuits ==
  /\ [][(req.preAborted /\ req'.n = req.n) => net' = net]_vars
  /\ [](req.preAborted =>
          /\ pc = "nostream" /\ promptState = "none" /\ abortCalls = 0
          /\ (req.kind = "generate" /\ req.pc = "done") =>
               /\ req.outcome = "threw" /\ req.error.name = "AbortError"
               /\ ~req.wrapped)

\* C14, doGenerate alone
C14_GenerateShortCircuits ==
  /\ [][(req.kind = "generate" /\ req.preAborted /\ req'.n = req.n) =>
          net' = net]_vars
  /\ []((req.kind = "generate" /\ req.preAborted) =>
          /\ pc = "nostream" /\ promptState = "none" /\ abortCalls = 0
          /\ req.pc = "done" =>
               /\ req.outcome = "threw" /\ req.error.name = "AbortError"
               /\ ~req.wrapped)

\* a step in which the call in progress leaves getOrCreateSession with an id
SessionResolved ==
  req.pc \in {"session", "creating"} /\ req'.pc = "client"

\* C15: over the requests of one instance, each begun after the previous one
\* finished.  A request that resolves its session uses the id the instance holds
\* afterwards (getSessionId).  Without createNewSession, session.create is called
\* only while no id is held, so after the first creation every request reuses
\* that id and with a preset id nothing is ever created; with createNewSession
\* every request that resolves its session creates one and replaces the held id.
\* Before the first request getSessionId gives the preset id, undefined when
\* there is none.
C15_SessionLifecycle ==
  /\ [][SessionResolved =>
          /\ sessionId' = getSessionId(inst')
          /\ IF inst.settings.createNewSession
             THEN /\ net'.create = net.create + 1
                  /\ getSessionId(inst') # getSessionId(inst)
             ELSE IF TruthyId(inst.sessionId)
             THEN /\ net'.create = net.create
                  /\ getSessionId(inst') = getSessionId(inst)
             ELSE /\ net'.create = net.create + 1
                  /\ TruthyId(inst'.sessionId)]_vars
  /\ [][net'.create # net.create =>
          inst.settings.createNewSession \/ ~TruthyId(inst.sessionId)]_vars
  /\ [][getSessionId(inst') # getSessionId(inst) =>
          SessionResolved /\ net'.create = net.create + 1]_vars
  /\ []((TruthyId(inst.settings.sessionId) /\ ~inst.settings.createNewSession) =>
          net.create = 0 /\ getSessionId(inst) = inst.settings.sessionId)
  /\ [](req.n = 0 => getSessionId(inst) = inst.settings.sessionId)

\* an instance without preset id and without createNewSession has finished a
\* doGenerate and then a doStream request: one session was created, by the first
\* request, and the second one used it
C15_Witness ==
  /\ inst.settings = [sessionId |-> Undefined, createNewSession |-> FALSE]
  /\ req.n = 2 /\ req.kind = "stream" /\ req.pc = "done" /\ req.outcome = "stream"
  /\ net.create = 1 /\ net.prompt = 1
  /\ getSessionId(inst) = CreatedId(1) /\ sessionId = CreatedId(1)


(***************************************************************************)
(* doGenerate: the result built from the response of session.prompt        *)
(* (responseData.info, responseData.parts).                                *)
(***************************************************************************)
\* extractTextFromParts: the texts of the text parts that are neither synthetic
\* nor ignored, joined
RECURSIVE extractTextFromParts_keepsSynthetic(_)
extractTextFromParts_keepsSynthetic(parts) ==
  IF parts = <<>> THEN <<>>
  ELSE (IF Head(parts).type = "text" THEN Head(parts).text ELSE <<>>)
       \o extractTextFromParts_keepsSynthetic(Tail(parts))

RECURSIVE extractTextFromParts(_)
extractTextFromParts(parts) ==
  IF parts = <<>> THEN <<>>
  ELSE (IF Head(parts).type = "text" /\ ~Head(parts).synthetic /\ ~Head(parts).ignored
        THEN Head(parts).text ELSE <<>>)
       \o extractTextFromParts(Tail(parts))

\* extractToolCallsFromParts: a tool-call and a tool-result entry for every tool
\* part in state completed or error, in list order
RECURSIVE extractToolCallsFromParts(_)
extractToolCallsFromParts(parts) ==
  IF parts = <<>> THEN <<>>
  ELSE LET part == Head(parts)
           call == [type |-> "tool-call", toolCallId |-> part.callID,
                    toolName |-> part.tool,
                    input |-> JSONstringify(part.state.input)]
       IN (IF part.type = "tool" /\ part.state.status = "completed"
           THEN << call,
                   [type |-> "tool-result", toolCallId |-> part.callID,
                    toolName |-> part.tool,
                    result |-> IF part.state.output = Undefined THEN ""
                               ELSE part.state.output] >>
           ELSE IF part.type = "tool" /\ part.state.status = "error"
           THEN << call,
                   [type |-> "tool-result", toolCallId |-> part.callID,
                    toolName |-> part.tool,
                    result |-> IF part.state.error = Undefined THEN "Unknown error"
                               ELSE part.state.error,
                    isError |-> TRUE] >>
           ELSE <<>>)
          \o extractToolCallsFromParts(Tail(parts))

\* extractUsageFromParts: the token counts and the cost of the step-finish parts,
\* summed
RECURSIVE extractUsageFromParts(_)
extractUsageFromParts(parts) ==
  IF parts = <<>>
  THEN [inputTokens |-> 0, outputTokens |-> 0, reasoningTokens |-> 0,
        cachedInputTokens |-> 0, cachedWriteTokens |-> 0, totalCost |-> 0]
  ELSE LET u == extractUsageFromParts(Tail(parts))
           part == Head(parts)
       IN IF part.type = "step-finish"
          THEN [inputTokens |-> u.inputTokens + part.tokens.input,
                outputTokens |-> u.outputTokens + part.tokens.output,
                reasoningTokens |-> u.reasoningTokens + part.tokens.reasoning,
                cachedInputTokens |-> u.cachedInputTokens + part.tokens.cache.read,
                cachedWriteTokens |-> u.cachedWriteTokens + part.tokens.cache.write,
                totalCost |-> u.totalCost + part.cost]
          ELSE u

\* undefined where a token count is expected; counts are never negative
UndefinedNumber == -1

\* n || undefined
OrUndefined(n) == IF n = 0 THEN UndefinedNumber ELSE n

\* the usage object doGenerate returns
doGenerateUsage(u) ==
  [inputTokens |->
     [total |-> OrUndefined(u.inputTokens), noCache |-> UndefinedNumber,
      cacheRead |-> OrUndefined(u.cachedInputTokens),
      cacheWrite |-> OrUndefined(u.cachedWriteTokens)],
   outputTokens |->
     [total |-> OrUndefined(u.outputTokens), text |-> Undefined,
      reasoning |-> OrUndefined(u.reasoningTokens)]]

\* the object doGenerate returns (request and warnings left out)
doGenerateResult(info, parts, sid) ==
  LET textContent == extractTextFromParts(parts)
      usage == extractUsageFromParts(parts)
  IN [content |->
        (IF Truthy(textContent) THEN << [type |-> "text", text |-> textContent] >>
         ELSE <<>>) \o extractToolCallsFromParts(parts),
      finishReason |-> mapOpencodeFinishReason(info),
      usage |-> doGenerateUsage(usage),
      providerMetadata |->
        [opencode |-> [sessionId |-> sid, cost |-> usage.totalCost]]]


(***************************************************************************)
(* SpecExtract: one response of at most MaxResponseParts parts of          *)
(* ResponseParts is interpreted twice: by doGenerate's extraction, and by   *)
(* the streaming translator fed the same parts one by one, as              *)
(* message.part.updated events without delta, and closed by                *)
(* createFinishParts.                                                      *)
(***************************************************************************)
MaxResponseParts == 3

\* tokens {input 10, output 5} as in the usage test, and a step with cache and
\* reasoning tokens
ResponseTokens ==
  {[ZeroTokens EXCEPT !.input = 10, !.output = 5],
   [input |-> 1, output |-> 2, reasoning |-> 1, cache |-> [read |-> 1, write |-> 2]]}

ResponseParts ==
  {StepFinishPart("s1", "A", "m1", t, 1) : t \in ResponseTokens}
  \cup {TextPart("p1", "A", "m1", T_ab), TextPart("p2", "A", "m1", T_b),
        [TextPart("p3", "A", "m1", T_a) EXCEPT !.synthetic = TRUE],
        ReasoningPart("r1", "A", "m1", T_a)}
  \cup {ToolPart("t1", "A", "m1", "c1", "bash", ts) :
          ts \in {ToolStateCompleted(<<"a">>, "ok"),
                  ToolStateCompleted(<<>>, Undefined),
                  ToolStateRunning(<<"a">>, "Run")}}
  \cup {ToolPart("t2", "A", "m1", "c2", "bash", ts) :
          ts \in {ToolStateError(<<"a">>, "boom"),
                  ToolStateError(<<"a">>, Undefined),
                  ToolStatePending(<<>>)}}

RECURSIVE SeqsUpTo(_, _)
SeqsUpTo(S, n) ==
  IF n = 0 THEN {<<>>}
  ELSE LET shorter == SeqsUpTo(S, n - 1)
       IN shorter \cup {Append(q, x) : q \in shorter, x \in S}

\* each text part and each tool part of the list appears once
AppearsOnce(parts) ==
  \A i, j \in 1..Len(parts) :
    i # j => /\ parts[i].id # parts[j].id
             /\ (parts[i].type = "tool" /\ parts[j].type = "tool")
                  => parts[i].callID # parts[j].callID

InitExtract ==
  /\ pc = "translating"
  /\ sessionId = "A"
  /\ IdleClassifier /\ IdleCorrelator /\ IdleTranslator /\ IdleRelay
  /\ IdleInstance /\ IdleNet /\ IdleRequest /\ IdleManager
  /\ \E parts \in SeqsUpTo(ResponseParts, MaxResponseParts) :
       /\ AppearsOnce(parts)
       /\ generated = [parts |-> parts, info |-> NoInfo, called |-> FALSE,
                       result |-> Undefined]

\* doGenerate builds its result from the response
ExtractGenerate ==
  /\ ~generated.called
  /\ generated' = [generated EXCEPT
                     !.called = TRUE,
                     !.result = doGenerateResult(generated.info, generated.parts,
                                                 sessionId)]
  /\ UNCHANGED <<pc, sessionId, classifierVars, correlatorVars, translatorVars,
                 relayVars, inst, net, req, mgr>>

\* the translator is fed the next part of the response
ExtractStreamPart ==
  /\ Len(fed) < Len(generated.parts)
  /\ Translate(EventMessagePartUpdated(generated.parts[Len(fed) + 1], <<>>))

\* the whole response was fed: the stream is closed
ExtractStreamFinish ==
  /\ Len(fed) = Len(generated.parts)
  /\ CloseStream

NextExtract == ExtractGenerate \/ ExtractStreamPart \/ ExtractStreamFinish

SpecExtract == InitExtract /\ [][NextExtract]_vars

RECURSIVE SumResponse(_, _)
SumResponse(parts, field) ==
  IF parts = <<>> THEN 0
  ELSE (IF Head(parts).type = "step-finish" THEN Head(parts).tokens[field] ELSE 0)
       + SumResponse(Tail(parts), field)

\* both interpretations of the response are complete
ExtractDone == generated.called /\ pc = "finished"

\* C16: the usage doGenerate returns equals the usage of the streaming finish part
\* for the same step-finish parts: inputTokens.noCache is the sum of the input
\* tokens, inputTokens.total, cacheRead and cacheWrite and outputTokens.total
\* and reasoning agree.
C16_UsageAgrees ==
  ExtractDone =>
    LET g == generated.result.usage
        f == out[Len(out)].usage
    IN /\ g.inputTokens = f.inputTokens
       /\ g.outputTokens = f.outputTokens
       /\ g.inputTokens.noCache = SumResponse(generated.parts, "input")

\* the tool-call and tool-result entries of a sequence of parts, in order
RECURSIVE ToolEntries(_)
ToolEntries(parts) ==
  IF parts = <<>> THEN <<>>
  ELSE (IF Head(parts).type \in {"tool-call", "tool-result"}
        THEN << Head(parts) >> ELSE <<>>) \o ToolEntries(Tail(parts))

\* the entry is flagged as an error
ErrorFlag(entry) == "isError" \in DOMAIN entry /\ entry.isError

\* the text of doGenerate's content, empty when it has no text entry
GeneratedText(content) ==
  IF content # <<>> /\ content[1].type = "text" THEN content[1].text ELSE <<>>

\* C17: for a response in which each text part and each tool part appears once,
\* doGenerate's text is the concatenation of the streamed text-deltas (synthetic
\* and ignored text left out of both), and its tool-call / tool-result entries
\* are the streamed ones, in the same order, with the same call id, tool name,
\* serialized input, result payload (output or the empty string, error message
\* or 'Unknown error') and error flag; a part in state pending or running gives
\* no tool-call and no tool-result in either.
C17_ExtractionAgrees ==
  ExtractDone =>
    LET g == ToolEntries(generated.result.content)
        f == ToolEntries(out)
    IN /\ GeneratedText(generated.result.content)
            = ConcatDeltas(PartsOfType(out, "text-delta"))
       /\ Len(generated.result.content)
            = Len(g) + Len(PartsOfType(generated.result.content, "text"))
       /\ Len(g) = Len(f)
       /\ \A i \in 1..Len(g) :
            /\ g[i].type = f[i].type
            /\ g[i].toolCallId = f[i].toolCallId
            /\ g[i].toolName = f[i].toolName
            /\ g[i].type = "tool-call" => g[i].input = f[i].input
            /\ g[i].type = "tool-result" =>
                 g[i].result = f[i].result /\ ErrorFlag(g[i]) = ErrorFlag(f[i])
       /\ \A k \in 1..Len(generated.parts) :
            LET part == generated.parts[k]
            IN (part.type = "tool" /\ part.state.status \in {"pending", "running"}) =>
                 \A i \in 1..Len(g) :
                   g[i].toolCallId # part.callID /\ f[i].toolCallId # part.callID

\* a response with a text part, a completed tool part without output and a
\* failed tool part without message was interpreted both ways: text "ab", then
\* tool-call and tool-result "" for c1, tool-call and tool-result 'Unknown error'
\* flagged as error for c2
C17_Witness ==
  /\ ExtractDone /\ Len(generated.parts) = 3
  /\ generated.parts[1] = TextPart("p1", "A", "m1", T_ab)
  /\ generated.parts[2].callID = "c1" /\ generated.parts[3].callID = "c2"
  /\ Len(generated.result.content) = 5
  /\ generated.result.content[1].text = T_ab
  /\ generated.result.content[3].result = ""
  /\ generated.result.content[5].result = "Unknown error"
  /\ ErrorFlag(generated.result.content[5])
  /\ Len(ToolEntries(out)) = 4


(***************************************************************************)
(* OpencodeClientManager.                                                  *)
(* mgr.instance is the static singleton slot (0: null); mgr.objs are the   *)
(* manager objects constructed so far, an object's identity being its      *)
(* index; mgr.promises are the promises returned by initializeClient, one  *)
(* per initialization attempt, with the await the attempt is suspended at: *)
(*   "importing"  awaiting import("@opencode-ai/sdk/v2")                   *)
(*   "checking"   awaiting isServerRunning                                 *)
(*   "starting"   awaiting createOpencodeServer                            *)
(*   "fulfilled" / "rejected"                                              *)
(* mgr.calls are the getClient calls made, mgr.got the managers returned   *)
(* by getInstance, in call order, with a 0 for every resetInstance.        *)
(* A client is the record of where it came from and of the attempt that    *)
(* made it; closeCalls and disposeCalls count calls and are read by no     *)
(* operation.                                                              *)
(***************************************************************************)
NoClient == [src |-> "none", id |-> 0]

PreconfiguredClient == [src |-> "preconfigured", id |-> 1]

DefaultOptions ==
  [hostname |-> "127.0.0.1", port |-> 4096, autoStartServer |-> TRUE,
   serverTimeout |-> 10000, baseUrl |-> Undefined, client |-> NoClient]

\* an options object: keys are the options given with a value other than
\* undefined
Options(keys, vals) == [keys |-> keys, vals |-> vals]

NoOptions == Options({}, DefaultOptions)

\* { ...opts, ...filteredOptions }
MergeOptions(opts, o) ==
  [f \in DOMAIN opts |-> IF f \in o.keys THEN o.vals[f] ELSE opts[f]]

\* the constructor
NewManager(o) ==
  [options |-> MergeOptions(DefaultOptions, o), client |-> NoClient, server |-> 0,
   initPromise |-> 0, isDisposed |-> FALSE, cleanupHandlersRegistered |-> TRUE,
   closeCalls |-> 0, disposeCalls |-> 0]

\* updateOptions: options are merged only while there is no client and no
\* initialization pending; afterwards they are ignored with a warning
updateOptions(M, o) ==
  IF M.client = NoClient /\ M.initPromise = 0
  THEN [M EXCEPT !.options = MergeOptions(M.options, o)]
  ELSE M

\* dispose: nothing the second time; else the handlers are unregistered, a
\* managed server is closed (an exception of close is caught) and forgotten, the
\* client and the pending initialization are forgotten
dispose_notIdempotent(M) ==
  [M EXCEPT !.isDisposed = TRUE, !.cleanupHandlersRegistered = FALSE,
            !.closeCalls = @ + 1,
            !.server = 0, !.client = NoClient, !.initPromise = 0,
            !.disposeCalls = @ + 1]

dispose(M) ==
  IF M.isDisposed THEN [M EXCEPT !.disposeCalls = @ + 1]
  ELSE [M EXCEPT !.isDisposed = TRUE, !.cleanupHandlersRegistered = FALSE,
                 !.closeCalls = IF M.server # 0 THEN @ + 1 ELSE @,
                 !.server = 0, !.client = NoClient, !.initPromise = 0,
                 !.disposeCalls = @ + 1]

isServerManaged(M) == M.server # 0

\* a getClient call: the manager it was made on, how it proceeded ("direct":
\* settled at once, "starter": started the initialization and awaits it,
\* "waiter": returned the pending initialization's promise) and its outcome
Call(m, role, promise, st, value, why) ==
  [m |-> m, role |-> role, promise |-> promise, state |-> st, value |-> value,
   reason |-> why]

\* initializeClient up to its first await: a preconfigured client is returned at
\* once; healthy is what isServerRunning answered, if it was asked
initializeClient_ignoresClient(m, M) ==
  [m |-> m, state |-> "importing", value |-> NoClient,
   reason |-> Undefined, server |-> 0, healthy |-> "unasked"]

initializeClient(m, M) ==
  IF M.options.client # NoClient
  THEN [m |-> m, state |-> "fulfilled", value |-> M.options.client,
        reason |-> Undefined, server |-> 0, healthy |-> "unasked"]
  ELSE [m |-> m, state |-> "importing", value |-> NoClient,
        reason |-> Undefined, server |-> 0, healthy |-> "unasked"]

\* getClient, up to its first await
getClient_noJoin(m, g) ==
  LET M == g.objs[m]
      p == Len(g.promises) + 1
  IN IF M.isDisposed
     THEN [g EXCEPT !.calls = Append(@, Call(m, "direct", 0, "rejected", NoClient,
                                         "Client manager has been disposed"))]
     ELSE IF M.client # NoClient
     THEN [g EXCEPT !.calls = Append(@, Call(m, "direct", 0, "resolved", M.client,
                                         Undefined))]
     ELSE [g EXCEPT !.promises = Append(@, initializeClient(m, M)),
                    !.objs[m].initPromise = p,
                    !.calls = Append(@, Call(m, "starter", p, "pending", NoClient,
                                         Undefined))]

getClient(m, g) ==
  LET M == g.objs[m]
      p == Len(g.promises) + 1
  IN IF M.isDisposed
     THEN [g EXCEPT !.calls = Append(@, Call(m, "direct", 0, "rejected", NoClient,
                                         "Client manager has been disposed"))]
     ELSE IF M.client # NoClient
     THEN [g EXCEPT !.calls = Append(@, Call(m, "direct", 0, "resolved", M.client,
                                         Undefined))]
     ELSE IF M.initPromise # 0
     THEN [g EXCEPT !.calls = Append(@, Call(m, "waiter", M.initPromise, "pending",
                                         NoClient, Undefined))]
     ELSE [g EXCEPT !.promises = Append(@, initializeClient(m, M)),
                    !.objs[m].initPromise = p,
                    !.calls = Append(@, Call(m, "starter", p, "pending", NoClient,
                                         Undefined))]

\* resetInstance: the singleton, if any, is disposed and the slot cleared
resetInstance_keepsInstance(g) ==
  [g EXCEPT !.objs[g.instance] = dispose(@), !.got = Append(@, 0)]

resetInstance(g) ==
  [g EXCEPT !.objs[g.instance] = dispose(@), !.instance = 0, !.got = Append(@, 0)]


(***************************************************************************)
(* The operations of the client manager as steps.                          *)
(***************************************************************************)
ManagerOptions ==
  {NoOptions,
   Options({"baseUrl"}, [DefaultOptions EXCEPT !.baseUrl = "http://remote:1"]),
   Options({"autoStartServer"}, [DefaultOptions EXCEPT !.autoStartServer = FALSE]),
   Options({"client"}, [DefaultOptions EXCEPT !.client = PreconfiguredClient])}

nonManagerVars ==
  <<pc, sessionId, classifierVars, correlatorVars, translatorVars, relayVars,
    inst, net, req, generated>>

Managers == 1..Len(mgr.objs)

\* the number of getInstance calls among mgr.got
InstanceCalls == Cardinality({i \in 1..Len(mgr.got) : mgr.got[i] # 0})

\* getInstance(options): the singleton is constructed if there is none, else
\* its options are updated; it is returned
GetInstance(o) ==
  /\ IF mgr.instance = 0
     THEN mgr' = [mgr EXCEPT !.objs = Append(@, NewManager(o)),
                           !.instance = Len(mgr.objs) + 1,
                           !.got = Append(@, Len(mgr.objs) + 1)]
     ELSE mgr' = [mgr EXCEPT !.objs[mgr.instance] = updateOptions(@, o),
                             !.got = Append(@, mgr.instance)]
  /\ UNCHANGED nonManagerVars

ResetInstance ==
  /\ mgr.instance # 0
  /\ mgr' = resetInstance(mgr)
  /\ UNCHANGED nonManagerVars

GetClient(m) ==
  /\ mgr' = getClient(m, mgr)
  /\ UNCHANGED nonManagerVars

\* the SDK module is imported: with a baseUrl the client for it is created
InitImported(p) ==
  /\ mgr.promises[p].state = "importing"
  /\ LET M == mgr.objs[mgr.promises[p].m]
     IN mgr' = IF M.options.baseUrl # Undefined
               THEN [mgr EXCEPT !.promises[p].state = "fulfilled",
                                !.promises[p].value = [src |-> "baseUrl", id |-> p]]
               ELSE [mgr EXCEPT !.promises[p].state = "checking"]
  /\ UNCHANGED nonManagerVars

\* isServerRunning answered: a client for the running server is created, or the
\* server is started, or, autoStartServer being off, the attempt fails
InitHealthChecked(p) ==
  /\ mgr.promises[p].state = "checking"
  /\ LET M == mgr.objs[mgr.promises[p].m]
     IN \E running \in BOOLEAN :
          mgr' = IF running
                 THEN [mgr EXCEPT !.promises[p].state = "fulfilled",
                                  !.promises[p].healthy = "yes",
                                  !.promises[p].value = [src |-> "existing", id |-> p]]
                 ELSE IF M.options.autoStartServer
                 THEN [mgr EXCEPT !.promises[p].state = "starting",
                                  !.promises[p].healthy = "no"]
                 ELSE [mgr EXCEPT !.promises[p].state = "rejected",
                                  !.promises[p].healthy = "no",
                                  !.promises[p].reason = "No OpenCode server running"]
  /\ UNCHANGED nonManagerVars

\* createOpencodeServer settled: the server is kept and a client for it is
\* created, or the attempt fails
InitServerStarted(p) ==
  /\ mgr.promises[p].state = "starting"
  /\ \E started \in BOOLEAN :
       mgr' = IF started
              THEN [mgr EXCEPT !.objs[mgr.promises[p].m].server = p,
                               !.promises[p].server = p,
                               !.promises[p].state = "fulfilled",
                               !.promises[p].value = [src |-> "started", id |-> p]]
              ELSE [mgr EXCEPT !.promises[p].state = "rejected",
                               !.promises[p].reason = "Failed to start OpenCode server"]
  /\ UNCHANGED nonManagerVars

\* the call that started the initialization resumes from its await: the client
\* is kept and returned, or the failure is thrown on; finally the pending
\* initialization is forgotten
StarterResume_keepsFailure(c) ==
  /\ mgr.calls[c].role = "starter" /\ mgr.calls[c].state = "pending"
  /\ LET P == mgr.promises[mgr.calls[c].promise]
         m == mgr.calls[c].m
     IN /\ P.state \in {"fulfilled", "rejected"}
        /\ mgr' = IF P.state = "fulfilled"
                  THEN [mgr EXCEPT !.objs[m].client = P.value,
                                   !.objs[m].initPromise = 0,
                                   !.calls[c].state = "resolved",
                                   !.calls[c].value = P.value]
                  ELSE [mgr EXCEPT !.calls[c].state = "rejected",
                                   !.calls[c].reason = P.reason]
  /\ UNCHANGED nonManagerVars

StarterResume(c) ==
  /\ mgr.calls[c].role = "starter" /\ mgr.calls[c].state = "pending"
  /\ LET P == mgr.promises[mgr.calls[c].promise]
         m == mgr.calls[c].m
     IN /\ P.state \in {"fulfilled", "rejected"}
        /\ mgr' = IF P.state = "fulfilled"
                  THEN [mgr EXCEPT !.objs[m].client = P.value,
                                   !.objs[m].initPromise = 0,
                                   !.calls[c].state = "resolved",
                                   !.calls[c].value = P.value]
                  ELSE [mgr EXCEPT !.objs[m].initPromise = 0,
                                   !.calls[c].state = "rejected",
                                   !.calls[c].reason = P.reason]
  /\ UNCHANGED nonManagerVars

\* a call that returned the pending initialization's promise settles with it
WaiterResume(c) ==
  /\ mgr.calls[c].role = "waiter" /\ mgr.calls[c].state = "pending"
  /\ LET P == mgr.promises[mgr.calls[c].promise]
     IN /\ P.state \in {"fulfilled", "rejected"}
        /\ mgr' = IF P.state = "fulfilled"
                  THEN [mgr EXCEPT !.calls[c].state = "resolved",
                                   !.calls[c].value = P.value]
                  ELSE [mgr EXCEPT !.calls[c].state = "rejected",
                                   !.calls[c].reason = P.reason]
  /\ UNCHANGED nonManagerVars

Dispose(m) ==
  /\ mgr' = [mgr EXCEPT !.objs[m] = dispose(@)]
  /\ UNCHANGED nonManagerVars

\* a step of an initialization in flight, or the resumption of the call that
\* started it
InitProgress ==
  \/ \E p \in 1..Len(mgr.promises) : InitImported(p)
  \/ \E p \in 1..Len(mgr.promises) : InitHealthChecked(p)
  \/ \E p \in 1..Len(mgr.promises) : InitServerStarted(p)
  \/ \E c \in 1..Len(mgr.calls) : StarterResume(c)

\* the resumption of a call that joined an initialization
JoinProgress == \E c \in 1..Len(mgr.calls) : WaiterResume(c)

(***************************************************************************)
(* SpecManager: one manager, made by createInstance with any of            *)
(* ManagerOptions; at most MaxClientCalls getClient calls and              *)
(* MaxDisposeCalls dispose calls on it, in any order and interleaved with  *)
(* the steps of the initializations in flight.                             *)
(***************************************************************************)
MaxClientCalls == 3
MaxDisposeCalls == 2

InitManager ==
  /\ pc = "manager"
  /\ sessionId = "A"
  /\ IdleClassifier /\ IdleCorrelator /\ IdleTranslator /\ IdleRelay
  /\ IdleInstance /\ IdleNet /\ IdleRequest /\ IdleGenerate
  /\ \E o \in ManagerOptions :
       mgr = [instance |-> 0, objs |-> << NewManager(o) >>, promises |-> <<>>,
              calls |-> <<>>, got |-> <<>>]

ManagerGetClient ==
  \E m \in Managers : Len(mgr.calls) < MaxClientCalls /\ GetClient(m)

ManagerDispose ==
  \E m \in Managers : mgr.objs[m].disposeCalls < MaxDisposeCalls /\ Dispose(m)

NextManager == ManagerGetClient \/ ManagerDispose \/ InitProgress \/ JoinProgress

SpecManager == InitManager /\ [][NextManager]_vars

(***************************************************************************)
(* SpecSingleton: at most MaxInstanceCalls getInstance calls with any of   *)
(* SingletonOptions, with resetInstance, and getClient (one call per       *)
(* manager, one initialization in flight at a time) and dispose (once per  *)
(* manager) on any manager constructed so far, interleaved with the steps  *)
(* of the initialization in flight; no call joins an initialization here.  *)
(***************************************************************************)
MaxInstanceCalls == 3

InitSingleton ==
  /\ pc = "manager"
  /\ sessionId = "A"
  /\ IdleClassifier /\ IdleCorrelator /\ IdleTranslator /\ IdleRelay /\ IdleOthers

\* getInstance() and getInstance({ baseUrl })
SingletonOptions ==
  {NoOptions,
   Options({"baseUrl"}, [DefaultOptions EXCEPT !.baseUrl = "http://remote:1"])}

SingletonGetInstance ==
  \E o \in SingletonOptions : InstanceCalls < MaxInstanceCalls /\ GetInstance(o)

SingletonGetClient ==
  \E m \in Managers :
    /\ \A c \in 1..Len(mgr.calls) : mgr.calls[c].m # m /\ mgr.calls[c].state # "pending"
    /\ GetClient(m)

SingletonDispose ==
  \E m \in Managers : mgr.objs[m].disposeCalls = 0 /\ Dispose(m)

NextSingleton ==
  \/ SingletonGetInstance \/ ResetInstance
  \/ SingletonGetClient \/ SingletonDispose \/ InitProgress

SpecSingleton == InitSingleton /\ [][NextSingleton]_vars

\* the calls of mgr.got between which resetInstance was not called
SameEpoch(i, j) == \A k \in i..j : mgr.got[k] # 0

\* C18: getInstance returns the same manager on every call, whatever its
\* options, until resetInstance is called; resetInstance disposes the singleton
\* and clears the slot; the getInstance after it constructs a manager that was
\* returned by no earlier call and is as the constructor leaves it: not
\* disposed, no client, no server, no initialization pending.
C18_Singleton ==
  /\ [](\A i, j \in 1..Len(mgr.got) :
          (i < j /\ mgr.got[i] # 0 /\ mgr.got[j] # 0) =>
            (mgr.got[i] = mgr.got[j] <=> SameEpoch(i, j)))
  /\ [][(Len(mgr'.got) = Len(mgr.got) + 1) =>
          LET r == mgr'.got[Len(mgr'.got)]
          IN IF r = 0
             THEN /\ mgr.instance # 0
                  /\ mgr'.objs[mgr.instance].isDisposed
                  /\ mgr'.instance = 0
             ELSE /\ mgr'.instance = r
                  /\ mgr.instance # 0 => r = mgr.instance
                  /\ mgr.instance = 0 =>
                       /\ r = Len(mgr.objs) + 1
                       /\ \E o \in SingletonOptions : mgr'.objs[r] = NewManager(o)
                       /\ ~mgr'.objs[r].isDisposed]_vars

\* getInstance twice on a singleton whose getClient call resolved,
\* resetInstance, and getInstance again
C18_Witness ==
  /\ Len(mgr.got) >= 4
  /\ \E i \in 1..(Len(mgr.got) - 3) :
       /\ mgr.got[i] # 0 /\ mgr.got[i + 1] = mgr.got[i]
       /\ mgr.got[i + 2] = 0
       /\ mgr.got[i + 3] \notin {0, mgr.got[i]}
       /\ mgr.objs[mgr.got[i]].isDisposed
       /\ ~mgr.objs[mgr.got[i + 3]].isDisposed
       /\ \E c \in 1..Len(mgr.calls) :
            mgr.calls[c].m = mgr.got[i] /\ mgr.calls[c].state = "resolved"

\* the initializations of manager m that did not fail
LiveInits(m) ==
  {p \in 1..Len(mgr.promises) :
     mgr.promises[p].m = m /\ mgr.promises[p].state # "rejected"}

\* the initializations of manager m that started a server
ServerStarts(m) ==
  {p \in 1..Len(mgr.promises) :
     mgr.promises[p].m = m /\ mgr.promises[p].server # 0}

\* C19: for one manager, the getClient calls that resolve, those that joined
\* an initialization in flight and those made after it alike, resolve to the
\* same client; an initialization is started only by a call that finds neither
\* a client nor an initialization pending, so that at most one initialization
\* that has not failed exists and at most one server is started.
C19_SingleInitialization ==
  /\ [](\A m \in Managers :
          /\ \A c, d \in 1..Len(mgr.calls) :
               (/\ mgr.calls[c].m = m /\ mgr.calls[d].m = m
                /\ mgr.calls[c].state = "resolved"
                /\ mgr.calls[d].state = "resolved") =>
                 /\ mgr.calls[c].value = mgr.calls[d].value
                 /\ mgr.calls[c].value # NoClient
          /\ Cardinality(LiveInits(m)) <= 1
          /\ Cardinality(ServerStarts(m)) <= 1)
  /\ [][(Len(mgr'.promises) > Len(mgr.promises)) =>
          LET m == mgr'.promises[Len(mgr'.promises)].m
          IN /\ Len(mgr'.promises) = Len(mgr.promises) + 1
             /\ mgr.objs[m].client = NoClient
             /\ mgr.objs[m].initPromise = 0
             /\ LiveInits(m) = {}]_vars

\* a call started the server, a second call joined the initialization in
\* flight, a third was made after it: the three resolved
C19_Witness ==
  \E c, d, e \in 1..Len(mgr.calls) :
    /\ mgr.calls[c].role = "starter" /\ mgr.calls[c].state = "resolved"
    /\ mgr.calls[d].role = "waiter" /\ mgr.calls[d].state = "resolved"
    /\ mgr.calls[e].role = "direct" /\ mgr.calls[e].state = "resolved"
    /\ mgr.calls[c].m = mgr.calls[d].m /\ mgr.calls[d].m = mgr.calls[e].m
    /\ mgr.calls[c].value.src = "started"

\* the getClient call appended by the step, if the step is a getClient call
NewCall == mgr'.calls[Len(mgr'.calls)]

getServerUrl(M) ==
  IF M.server # 0
  THEN [url |-> "server.url", hostname |-> Undefined, port |-> M.server]
  ELSE IF M.options.baseUrl # Undefined
  THEN [url |-> M.options.baseUrl, hostname |-> Undefined, port |-> 0]
  ELSE [url |-> Undefined, hostname |-> M.options.hostname, port |-> M.options.port]

\* initializeClient is running for manager m
InitInProgress(m) ==
  \E p \in 1..Len(mgr.promises) :
    mgr.promises[p].m = m /\ mgr.promises[p].state \in {"importing", "checking", "starting"}

\* C21: a getInstance call on a singleton that holds a client, or whose
\* initialization is in progress, changes neither its options nor the value
\* of getServerUrl; options are merged only while there is no client and no
\* initialization pending.
C21_OptionsFrozen ==
  [][(/\ Len(mgr'.got) = Len(mgr.got) + 1
      /\ mgr.instance # 0
      /\ mgr'.got[Len(mgr'.got)] = mgr.instance
      /\ (mgr.objs[mgr.instance].client # NoClient \/ InitInProgress(mgr.instance))) =>
       /\ mgr'.objs[mgr.instance].options = mgr.objs[mgr.instance].options
       /\ getServerUrl(mgr'.objs[mgr.instance]) = getServerUrl(mgr.objs[mgr.instance])]_vars

\* C21, the singleton not disposed: as above, and options change only when the
\* singleton has no client and no initialization of it is in progress
C21_OptionsFrozenUntilDisposed ==
  [][(/\ Len(mgr'.got) = Len(mgr.got) + 1
      /\ mgr.instance # 0
      /\ mgr'.got[Len(mgr'.got)] = mgr.instance
      /\ ~mgr.objs[mgr.instance].isDisposed) =>
       IF mgr.objs[mgr.instance].client # NoClient \/ InitInProgress(mgr.instance)
       THEN /\ mgr'.objs[mgr.instance].options = mgr.objs[mgr.instance].options
            /\ getServerUrl(mgr'.objs[mgr.instance]) = getServerUrl(mgr.objs[mgr.instance])
       ELSE \E o \in SingletonOptions :
              mgr'.objs[mgr.instance].options =
                MergeOptions(mgr.objs[mgr.instance].options, o)]_vars

(***************************************************************************)
(* SpecIsolated: at most MaxCreated managers made by createInstance, each  *)
(* with a preconfigured client of its own, beside the singleton, which     *)
(* initializes itself (one getInstance call, without options, and          *)
(* resetInstance);                                                         *)
(* one getClient call and one dispose call per manager, one                *)
(* initialization in flight at a time.                                     *)
(***************************************************************************)
MaxCreated == 2

\* the preconfigured client given to the k-th manager constructed
ClientOf(k) == [src |-> "preconfigured", id |-> k]

IsolatedOptions(k) ==
  {Options({"client"}, [DefaultOptions EXCEPT !.client = ClientOf(k)])}

\* the managers that getInstance returned
Singletons == {mgr.got[i] : i \in 1..Len(mgr.got)} \ {0}

\* createInstance(options): a manager is constructed; the singleton slot is
\* not looked at
CreateInstance_takesSlot(o) ==
  /\ mgr' = [mgr EXCEPT !.objs = Append(@, NewManager(o)),
                        !.instance = Len(mgr.objs) + 1]
  /\ UNCHANGED nonManagerVars

CreateInstance(o) ==
  /\ mgr' = [mgr EXCEPT !.objs = Append(@, NewManager(o))]
  /\ UNCHANGED nonManagerVars

IsolatedCreateInstance ==
  /\ Cardinality(Managers \ Singletons) < MaxCreated
  /\ \E o \in IsolatedOptions(Len(mgr.objs) + 1) : CreateInstance(o)

IsolatedGetInstance == mgr.got = <<>> /\ GetInstance(NoOptions)

NextIsolated ==
  \/ IsolatedCreateInstance \/ IsolatedGetInstance \/ ResetInstance
  \/ SingletonGetClient \/ SingletonDispose \/ InitProgress

SpecIsolated == InitSingleton /\ [][NextIsolated]_vars

\* the manager that the step works on: the one constructed, called, disposed
\* or whose initialization proceeds; 0 if the step is none of those
Touched ==
  IF Len(mgr'.objs) > Len(mgr.objs) THEN Len(mgr'.objs)
  ELSE IF Len(mgr'.calls) > Len(mgr.calls) THEN mgr'.calls[Len(mgr'.calls)].m
  ELSE IF \E m \in Managers : mgr'.objs[m] # mgr.objs[m]
  THEN CHOOSE m \in Managers : mgr'.objs[m] # mgr.objs[m]
  ELSE 0

\* the client that manager m serves: its preconfigured client, else one that
\* its own initialization created
OwnClient(m, client) ==
  IF mgr.objs[m].options.client # NoClient
  THEN client = mgr.objs[m].options.client
  ELSE \E p \in 1..Len(mgr.promises) :
         /\ mgr.promises[p].m = m
         /\ client.src \in {"baseUrl", "existing", "started"}
         /\ client.id = p

\* C22: createInstance constructs a manager that is neither an earlier one nor
\* the singleton, and leaves the singleton slot alone; a resolved getClient
\* call carries the client of the manager it was made on, and two managers
\* never serve the same client; a step on one manager (dispose among them)
\* changes no other manager, and a call is rejected as disposed only on a
\* manager that was itself disposed.
C22_Isolation ==
  /\ [](\A c \in 1..Len(mgr.calls) :
          /\ mgr.calls[c].state = "resolved" =>
               /\ OwnClient(mgr.calls[c].m, mgr.calls[c].value)
               /\ \A d \in 1..Len(mgr.calls) :
                    (mgr.calls[d].state = "resolved" /\ mgr.calls[d].m # mgr.calls[c].m) =>
                      mgr.calls[d].value # mgr.calls[c].value
          /\ mgr.calls[c].reason = "Client manager has been disposed" =>
               mgr.objs[mgr.calls[c].m].isDisposed)
  /\ [][/\ \A m \in Managers : m # Touched => mgr'.objs[m] = mgr.objs[m]
        /\ (Len(mgr'.objs) > Len(mgr.objs) /\ mgr'.got = mgr.got) =>
             /\ mgr'.instance = mgr.instance
             /\ Len(mgr'.objs) \notin Singletons
             /\ ~mgr'.objs[Len(mgr'.objs)].isDisposed]_vars

\* two managers made by createInstance and the singleton; the first was
\* disposed and a getClient call on it rejected, the second and the singleton
\* each resolved to a client of its own afterwards
C22_Witness ==
  \E a, b \in Managers \ Singletons, g \in Singletons :
    \E ca, cb, cg \in 1..Len(mgr.calls) :
      /\ a # b
      /\ mgr.objs[a].isDisposed /\ ~mgr.objs[b].isDisposed /\ ~mgr.objs[g].isDisposed
      /\ ca < cb /\ ca < cg
      /\ mgr.calls[ca].m = a /\ mgr.calls[ca].state = "rejected"
      /\ mgr.calls[cb].m = b /\ mgr.calls[cb].state = "resolved"
      /\ mgr.calls[cg].m = g /\ mgr.calls[cg].state = "resolved"
      /\ mgr.calls[cb].value = ClientOf(b)
      /\ mgr.calls[cg].value.src = "started"

\* the sources of a client, in the order initializeClient tries them, for the
\* options of manager M and the answer of the health check
ClientSource(M, healthy) ==
  IF M.options.client # NoClient THEN "preconfigured"
  ELSE IF M.options.baseUrl # Undefined THEN "baseUrl"
  ELSE IF healthy = "yes" THEN "existing"
  ELSE IF healthy = "no" /\ M.options.autoStartServer THEN "started"
  ELSE IF healthy = "no" THEN "none"
  ELSE "undecided"

\* C23: an initialization takes its client from the first applicable source in
\* the order preconfigured client, baseUrl, healthy existing server, started
\* server. With a preconfigured client it is fulfilled at once with that
\* client: no import, no health check, no server start. A server is started,
\* and isServerManaged() becomes true, only without preconfigured client and
\* baseUrl, after the health check failed and with autoStartServer. When no
\* source applies the initialization is rejected with 'No OpenCode server
\* running', and the call that ran it leaves the manager without client and
\* server.
C23_SourceOrder ==
  /\ [](\A p \in 1..Len(mgr.promises) :
          LET P == mgr.promises[p]
              M == mgr.objs[P.m]
              source == ClientSource(M, P.healthy)
          IN /\ P.state = "fulfilled" => P.value.src = source
             /\ source = "preconfigured" =>
                  /\ P.state = "fulfilled" /\ P.value = M.options.client
                  /\ P.healthy = "unasked" /\ P.server = 0
             /\ source = "baseUrl" => P.healthy = "unasked" /\ P.server = 0
             /\ P.state = "starting" \/ P.server # 0 => source = "started"
             /\ (P.state = "rejected" /\ P.reason = "No OpenCode server running")
                  <=> source = "none"
             /\ source = "none" => P.state = "rejected")
  /\ [](\A m \in Managers :
          isServerManaged(mgr.objs[m]) =>
            \E p \in 1..Len(mgr.promises) :
              /\ mgr.promises[p].m = m /\ mgr.promises[p].server # 0
              /\ ClientSource(mgr.objs[m], mgr.promises[p].healthy) = "started")
  /\ [][\A c \in 1..Len(mgr.calls) :
          (/\ mgr.calls[c].role = "starter"
           /\ mgr.calls[c].state = "pending" /\ mgr'.calls[c].state = "rejected"
           /\ mgr'.calls[c].reason = "No OpenCode server running") =>
            /\ mgr'.objs[mgr.calls[c].m].client = NoClient
            /\ mgr'.objs[mgr.calls[c].m].server = 0]_vars

\* after a server start that failed, the next call's initialization found no
\* healthy server again, started the server and resolved from it
C23_Witness ==
  \E c, d \in 1..Len(mgr.calls) :
    /\ d < c /\ mgr.calls[d].m = mgr.calls[c].m
    /\ mgr.calls[d].state = "rejected"
    /\ mgr.calls[d].reason = "Failed to start OpenCode server"
    /\ mgr.calls[c].state = "resolved" /\ mgr.calls[c].value.src = "started"
    /\ mgr.promises[mgr.calls[c].promise].healthy = "no"
    /\ isServerManaged(mgr.objs[mgr.calls[c].m])

\* the event translated by the step is a snapshot (no explicit delta) of the
\* open text or reasoning span that does not extend the text accumulated for it
NonPrefixSnapshot ==
  /\ fed' # fed
  /\ event'.type = "message.part.updated"
  /\ event'.delta = <<>>
  /\ \/ /\ event'.part.type = "text"
        /\ state.textStarted /\ state.textPartId = event'.part.id
        /\ ~startsWith(event'.part.text, state.lastTextContent)
     \/ /\ event'.part.type = "reasoning"
        /\ state.reasoningStarted /\ state.reasoningPartId = event'.part.id
        /\ ~startsWith(event'.part.text, state.lastReasoningContent)

\* C24: a text or reasoning snapshot that is not a prefix-extension of the text
\* accumulated for the open span (shorter, or different in characters already
\* emitted) emits nothing.
C24_NonPrefixSnapshotEmitsNothing ==
  [][NonPrefixSnapshot => out' = out]_vars

\* C24, the snapshots no longer than the accumulated text: these emit nothing
C24_ShortSnapshotEmitsNothing ==
  [][(/\ NonPrefixSnapshot
      /\ event'.part.type = "text" =>
           Len(event'.part.text) <= Len(state.lastTextContent)
      /\ event'.part.type = "reasoning" =>
           Len(event'.part.text) <= Len(state.lastReasoningContent))
       => out' = out]_vars

\* an outbound part of the given type for the call id lies before index i
ToolPartBefore(i, type, callID) ==
  \E j \in 1..(i - 1) : out[j].type = type /\ ToolPartCallId(out[j]) = callID

\* C25: per call id the outbound tool events come in the order
\* tool-input-start, tool-input-end, tool-call, tool-result: every
\* tool-input-end has a tool-input-start before it, every tool-call a
\* tool-input-end and every tool-result a tool-call, whatever state of the call
\* is seen first.
C25_ToolOrder ==
  \A i \in 1..Len(out) :
    LET c == ToolPartCallId(out[i])
    IN /\ out[i].type = "tool-input-end" => ToolPartBefore(i, "tool-input-start", c)
       /\ out[i].type = "tool-call" => ToolPartBefore(i, "tool-input-end", c)
       /\ out[i].type = "tool-result" => ToolPartBefore(i, "tool-call", c)

\* the first state seen of c1 is error, the first seen of c2 is completed, and
\* c1 is then replayed as running and pending: the four events of each call
\* are out, in order
C25_Witness ==
  /\ Len(fed) = 4
  /\ fed[1].part.callID = "c1" /\ fed[1].part.state.status = "error"
  /\ fed[2].part.callID = "c2" /\ fed[2].part.state.status = "completed"
  /\ fed[3].part.callID = "c1" /\ fed[3].part.state.status = "running"
  /\ fed[4].part.callID = "c1" /\ fed[4].part.state.status = "pending"
  /\ \A i \in 1..4 : out[i].type =
       <<"tool-input-start", "tool-input-end", "tool-call", "tool-result">>[i]
  /\ \A i \in 1..4 : ToolPartCallId(out[i]) = "c1" /\ ToolPartCallId(out[i + 4]) = "c2"

(***************************************************************************)
(* SpecInterleave: one doStream request for session A, never cancelled,    *)
(* over any feed of at most MaxInterleaveFeed events, those of session A   *)
(* (OwnEvents) interleaved in any way with those of session B              *)
(* (ForeignEvents: content, usage, message updates for the message id that *)
(* A uses, both idle signals); the feed may end at any point.              *)
(***************************************************************************)
MaxInterleaveFeed == 4

OwnEvents ==
  {AssistantUpdated(S_max_tokens), TextDelta(T_a), StepFinish, EventSessionIdle("A")}

ForeignEvents ==
  {EventMessagePartUpdated(TextPart("p1", "B", "m1", T_b), T_b),
   EventMessagePartUpdated(StepFinishPart("s1", "B", "m1", StepTokens, 1), <<>>),
   EventMessageUpdated(Info("m1", "B", "user", Undefined, <<>>)),
   EventMessageUpdated(Info("m1", "B", "assistant", Undefined, S_content_filter)),
   EventSessionIdle("B"),
   EventSessionStatus("B", "idle")}

InterleaveFeedEvent ==
  \E ev \in OwnEvents \cup ForeignEvents :
    Len(fed) < MaxInterleaveFeed /\ RelayEvent(ev)

NextInterleave ==
  \/ StreamStart \/ SubscribeOk \/ InterleaveFeedEvent \/ FeedEnd \/ StreamClose

SpecInterleave == InitStream /\ [][NextInterleave]_vars

\* the events of the feed that session B does not own, in order
OwnSubsequence(events) == SelectSeq(events, LAMBDA ev : ev \notin ForeignEvents)

\* the relay loop run on a feed from the state acc, without cancellation
RECURSIVE RelayAll(_, _)
RelayAll(events, acc) ==
  IF events = <<>> \/ acc.pc # "relaying" THEN acc
  ELSE LET r == relayIteration(Head(events), acc.state, acc.lastMessageInfo,
                               FALSE, sessionId)
       IN RelayAll(Tail(events),
                   [pc |-> r.pc, state |-> r.state, parts |-> acc.parts \o r.parts,
                    lastMessageInfo |-> r.lastMessageInfo])

RelayStart ==
  [pc |-> "relaying", state |-> createStreamState, parts |-> <<>>,
   lastMessageInfo |-> NoInfo]

\* C26: without cancellation, what a request for session A has sent out, its
\* stream state and whether it has finished are those that the relay loop
\* yields on the feed with the events of session B removed; an event of
\* session B changes nothing when it is delivered, and an idle signal of
\* session B does not finish the stream.
C26_NonInterference ==
  /\ [](pc \in {"relaying", "closing", "closed"} =>
          LET r == RelayAll(OwnSubsequence(fed), RelayStart)
          IN /\ SubSeq(out, 2, Len(out)) = r.parts
             /\ state = r.state
             /\ lastMessageInfo = r.lastMessageInfo
             /\ HasFinish(out) <=> r.pc = "closing"
             /\ pc = "relaying" => r.pc = "relaying")
  /\ [][(fed' # fed /\ event' \in ForeignEvents) =>
          /\ out' = out /\ state' = state /\ lastMessageInfo' = lastMessageInfo
          /\ pc' = pc /\ closed' = closed]_vars

\* text of A, then a content event and an idle signal of B, then the idle
\* signal of A: the stream of A finished there, with A's text only
C26_Witness ==
  /\ Len(fed) = 4 /\ pc = "closed"
  /\ fed[1] = TextDelta(T_a)
  /\ fed[2] \in ForeignEvents /\ fed[2].type = "message.part.updated"
  /\ fed[3] = EventSessionIdle("B")
  /\ fed[4] = EventSessionIdle("A")
  /\ HasFinish(out)
  /\ ConcatDeltas(PartsOfType(out, "text-delta")) = T_a

\* the feed tags message m as a user message (and never as an assistant one)
UserMessage(events, m) ==
  /\ \E i \in 1..Len(events) :
       /\ events[i].type = "message.updated"
       /\ events[i].info.id = m /\ events[i].info.role = "user"
  /\ \A i \in 1..Len(events) :
       (events[i].type = "message.updated" /\ events[i].info.id = m) =>
         events[i].info.role = "user"

\* every fragment of the feed belongs to a user message
OnlyUserFragments(events) ==
  \A i \in 1..Len(events) :
    events[i].type = "message.part.updated" =>
      UserMessage(events, events[i].part.messageID)

\* C27: whatever the order of message-updated and part-updated events, the
\* fragments of a user message yield no outbound event and no usage: a feed
\* all of whose fragments belong to user messages leaves the outbound stream
\* empty and the usage zero.
C27_UserFragmentsNeverRelayed ==
  OnlyUserFragments(fed) => (out = <<>> /\ state.usage = createStreamState.usage)

\* C27, the role known beforehand: the same when every fragment comes after a
\* message-updated event that tags its message as user
C27_TaggedUserFragmentsNeverRelayed ==
  (/\ OnlyUserFragments(fed)
   /\ \A i \in 1..Len(fed) :
        fed[i].type = "message.part.updated" =>
          \E j \in 1..(i - 1) :
            /\ fed[j].type = "message.updated"
            /\ fed[j].info.id = fed[i].part.messageID)
  => (out = <<>> /\ state.usage = createStreamState.usage)

\* the subscription of the request failed: start() is over and the prompt
\* was never submitted
SubscriptionFailed == pc = "closed" /\ promptState = "none"

\* the prompt is submitted only by the step in which subscribe has resolved
\* with a stream, so never while the subscription is awaited and never after it
\* failed
PromptAfterSubscribe ==
  /\ [](pc \in {"start", "subscribing"} => promptState = "none")
  /\ [][(promptState = "none" /\ promptState' # "none") =>
          /\ pc = "subscribing" /\ pc' = "relaying"
          /\ promptState' = "pending" /\ out' = out]_vars
  /\ [][(pc = "subscribing" /\ pc' \notin {"subscribing", "relaying"}) =>
          /\ pc' = "closed" /\ closed' /\ promptState' = "none"]_vars
  /\ [][SubscriptionFailed => (promptState' = "none" /\ out' = out)]_vars

\* C28: the subscription is established before the prompt is submitted; when
\* the subscription fails or yields no stream the prompt is never submitted and
\* the outbound stream is stream-start, one error part, closed.
C28_SubscribeBeforePrompt ==
  /\ PromptAfterSubscribe
  /\ [](SubscriptionFailed =>
          /\ closed /\ fed = <<>>
          /\ Len(out) = 2 /\ out[1].type = "stream-start" /\ out[2].type = "error")

\* C28, the abort error told apart: as above, but a subscription that fails
\* with an abort error closes the stream after stream-start with no error part
C28_SubscribeBeforePromptUnlessAbort ==
  /\ PromptAfterSubscribe
  /\ [](SubscriptionFailed =>
          /\ closed /\ fed = <<>>
          /\ out[1].type = "stream-start"
          /\ IF isAbortError(error) THEN Len(out) = 1
             ELSE Len(out) = 2 /\ out[2] = ErrorPart("subscribe"))

\* subscribe yielded no stream
C28_Witness ==
  /\ SubscriptionFailed
  /\ error = ErrorObject("Error", "Failed to subscribe to events")
  /\ Len(out) = 2 /\ out[2] = ErrorPart("subscribe")

\* the outbound parts other than stream-start, the error part of the prompt
\* and the error part of a feed that threw
RelayedParts(parts) ==
  SelectSeq(parts, LAMBDA p : p.type # "stream-start"
                                /\ p # ErrorPart("prompt") /\ p # ErrorPart("feed"))

\* C29: when the prompt call rejects while the stream is open, wherever the
\* relay loop stands, one error part is enqueued and nothing else changes: the
\* loop goes on. Events delivered afterwards are translated as relayIteration
\* translates them, and (without cancellation) what was relayed and whether
\* the stream has finished are what the feed alone yields.
C29_PromptFailureSurfaces ==
  /\ [][(promptState = "pending" /\ promptState' \notin {"pending", "fulfilled"}
         /\ ~closed) =>
          /\ promptState' = "rejected"
          /\ out' = Append(out, ErrorPart("prompt"))
          /\ pc' = pc /\ closed' = closed /\ state' = state /\ fed' = fed
          /\ lastMessageInfo' = lastMessageInfo /\ abortCalls' = abortCalls]_vars
  /\ [](promptState = "rejected" =>
          Len(SelectSeq(out, LAMBDA p : p = ErrorPart("prompt"))) = 1)
  /\ [][(promptState = "rejected" /\ fed' # fed) =>
          LET r == relayIteration(event', state, lastMessageInfo, abortSignal, sessionId)
          IN /\ out' = out \o r.parts /\ state' = r.state /\ pc' = r.pc
             /\ lastMessageInfo' = r.lastMessageInfo]_vars
  /\ []((promptState = "rejected" /\ ~abortSignal) =>
          LET r == RelayAll(fed, RelayStart)
          IN /\ RelayedParts(out) = r.parts
             /\ state = r.state
             /\ HasFinish(out) <=> r.pc = "closing"
             /\ pc = "relaying" => r.pc = "relaying")

\* the prompt call rejected before any event; text and the idle signal were
\* relayed afterwards and the stream finished
C29_Witness ==
  /\ promptState = "rejected" /\ pc = "closed" /\ ~abortSignal
  /\ Len(fed) = 2 /\ fed[1] = TextDelta(T_a) /\ fed[2] = EventSessionIdle("A")
  /\ Len(out) >= 5
  /\ out[2] = ErrorPart("prompt")
  /\ out[4].type = "text-delta"
  /\ out[Len(out)].type = "finish"

\* C30: once the cancellation signal is raised while start() is suspended
\* waiting for the next event of the feed, the stream is eventually closed,
\* the steps of start() being scheduled fairly and the feed being free to
\* deliver nothing more.
C30_CancelClosesWithoutFeed ==
  (abortSignal /\ pc = "relaying") ~> closed

\* C30, what moves a cancelled stream on: with the signal raised, start()
\* leaves its wait for the feed only by an event of the feed (then
\* session.abort is sent) or by the end or a failure of the feed (then the
\* stream is closed)
C30_CancelWaitsForFeed ==
  [][(abortSignal /\ pc = "relaying" /\ pc' # "relaying") =>
       \/ fed' # fed /\ pc' = "aborting"
       \/ fed' = fed /\ pc' = "closed"]_vars

\* C31: the outbound stream begins with one stream-start part that carries the
\* warnings of the setup, and holds no other; the iteration on an event appends
\* to the end of the stream exactly the translator's parts for that event, if
\* the event is owned and cancellation not raised (and then the finish parts
\* if the event is terminal), and nothing otherwise; no step removes or
\* changes a part already out.
C31_OrderedRelay ==
  /\ [](pc # "start" /\ pc \in {"subscribing", "relaying", "aborting", "closing", "closed"} =>
          /\ Len(out) >= 1
          /\ \E w \in WarningLists : out[1] = createStreamStartPart(w)
          /\ Len(PartsOfType(out, "stream-start")) = 1)
  /\ [][fed' # fed =>
          LET ev == event'
              r == convertEventToStreamParts(ev, state)
          IN /\ fed' = Append(fed, ev)
             /\ IF abortSignal \/ ~isEventForSession(ev, sessionId)
                THEN out' = out /\ state' = state
                ELSE /\ state' = r.state
                     /\ SubSeq(out', 1, Len(out) + Len(r.parts)) = out \o r.parts
                     /\ ~isSessionComplete(ev, sessionId) => out' = out \o r.parts]_vars
  /\ [][pc # "start" =>
          /\ Len(out') >= Len(out)
          /\ SubSeq(out', 1, Len(out)) = out]_vars

\* the stream-start part carries a warning; a text delta, a reasoning delta
\* and a second text delta were relayed in that order
C31_Witness ==
  /\ pc = "relaying" /\ Len(fed) = 3
  /\ out[1] = createStreamStartPart(<< "Custom tool definitions are ignored." >>)
  /\ fed[1] = TextDelta(T_a) /\ fed[2].part.type = "reasoning" /\ fed[3] = TextDelta(T_a)
  /\ Len(out) = 7
  /\ out[3].type = "text-delta" /\ out[5].type = "reasoning-delta"
  /\ out[6].type = "text-delta" \/ out[7].type = "text-delta"

(***************************************************************************)
(* SpecShape: isEventForSession, isSessionComplete and                     *)
(* convertEventToStreamParts applied to events of every shape, well formed *)
(* or not.                                                                 *)
(***************************************************************************)
ShapeParts ==
  {NoPart, [NoPart EXCEPT !.shape = "nonobject"],
   TextPart("p1", "A", "m1", <<"a">>),
   OtherPart("patch", "p1", "A", "m1")}
  \cup {[ToolPart("p1", "A", "m1", "c1", "bash", ToolStatePending(<<>>))
           EXCEPT !.lacks = l] : l \in {{}, {"state"}}}
  \cup {[StepFinishPart("p1", "A", "m1", ZeroTokens, 0)
           EXCEPT !.lacks = l] : l \in {{}, {"tokens"}, {"cache"}}}

ShapeInfos ==
  {NoInfo, [NoInfo EXCEPT !.shape = "nonobject"],
   Info("m1", "A", "assistant", Undefined, <<>>)}

ShapeEvents ==
  {[NoEvent EXCEPT !.type = t] :
     t \in {"custom", "session.status", "session.idle", "message.updated",
            "message.part.updated"}}
  \cup {[EventSessionStatus(s, st) EXCEPT !.lacks = l] :
          s \in SessionIds \cup {Undefined}, st \in {"idle", Undefined},
          l \in {{}, {"status"}}}
  \cup {EventSessionIdle(s) : s \in SessionIds \cup {Undefined}}
  \cup {EventMessageUpdated(i) : i \in ShapeInfos}
  \cup {EventMessagePartUpdated(p, <<>>) : p \in ShapeParts}
  \cup {[NoEvent EXCEPT !.type = "custom", !.props = "object"]}

TypeError == ErrorObject("TypeError", "Cannot read properties of undefined")

InitShape ==
  /\ pc = "shape"
  /\ event \in ShapeEvents /\ sessionId \in SessionIds /\ owned = FALSE
  /\ IdleClassifier /\ IdleTranslator /\ IdleRelay /\ IdleOthers

ShapeUnchanged ==
  UNCHANGED <<otherVars, event, sessionId, message, reason, errorReason, fed, relayVars>>

ShapeIsEventForSession ==
  /\ pc = "shape"
  /\ owned' = isEventForSession(event, sessionId)
  /\ pc' = "correlated"
  /\ UNCHANGED <<error, state, out>>
  /\ ShapeUnchanged

ShapeIsSessionComplete ==
  /\ pc = "shape"
  /\ \E raised \in isSessionComplete_raises(event, sessionId) :
       IF raised THEN pc' = "raised" /\ error' = TypeError /\ owned' = owned
       ELSE /\ pc' = "checked" /\ error' = error
            /\ owned' = isSessionComplete(event, sessionId)
  /\ UNCHANGED <<state, out>>
  /\ ShapeUnchanged

ShapeConvertEvent ==
  /\ pc = "shape"
  /\ \E raised \in convertEventToStreamParts_raises(event, state) :
       IF raised THEN pc' = "raised" /\ error' = TypeError /\ UNCHANGED <<state, out>>
       ELSE LET r == convertEventToStreamParts(event, state)
            IN pc' = "converted" /\ error' = error /\ state' = r.state /\ out' = r.parts
  /\ owned' = owned
  /\ ShapeUnchanged

NextShape == ShapeIsEventForSession \/ ShapeIsSessionComplete \/ ShapeConvertEvent

SpecShape == InitShape /\ [][NextShape]_vars

\* C32: none of isEventForSession, isSessionComplete and
\* convertEventToStreamParts raises, whatever the shape of the event.
C32_NeverRaises == pc # "raised"

\* C32, what the code keeps: isEventForSession is never the one that raises,
\* and an event of a type the functions do not recognize raises in none.
C32_UnrecognizedNeverRaises ==
  [][pc' = "raised" =>
       /\ pc = "shape" /\ ~ENABLED (ShapeIsEventForSession /\ pc' = "raised")
       /\ event.type \in {"session.status", "session.idle", "message.updated",
                          "message.part.updated"}]_vars

(***************************************************************************)
(* SpecIgnored: feeds that mix events the translator acts on with events   *)
(* it has no translation for.                                              *)
(***************************************************************************)
MaxIgnoredFeed == 3

\* events with a translation or an effect on the stream state
ActedEvents ==
  {EventMessagePartUpdated(TextPart("p1", "A", "m1", t), <<>>) : t \in {T_a, <<"a", "b">>}}
  \cup {EventMessagePartUpdated(ReasoningPart("r1", "A", "m1", T_a), <<>>),
        EventMessagePartUpdated(
          ToolPart("t1", "A", "m1", "c1", "bash", ToolStatePending(<<>>)), <<>>),
        StepFinish,
        EventMessageUpdated(Info("m2", "A", "user", Undefined, <<>>))}

\* an event of an unrecognized type, a session.diff event, a part of an
\* unrecognized kind, a file part, a step-start part, and text parts flagged
\* synthetic or ignored (of the open span's id, of another id, with a delta)
IgnoredEvents ==
  {[NoEvent EXCEPT !.type = t, !.props = "object", !.sessionID = "A"] :
     t \in {"custom", "session.diff"}}
  \cup {EventMessagePartUpdated(OtherPart(k, "p1", "A", "m1"), <<>>) :
          k \in {"patch", "file", "step-start"}}
  \cup {EventMessagePartUpdated(
          [TextPart(id, "A", "m1", <<"a", "b", "b">>) EXCEPT !.synthetic = TRUE], d) :
          id \in {"p1", "p2"}, d \in {<<>>, <<"b">>}}
  \cup {EventMessagePartUpdated(
          [TextPart("p2", "A", "m1", T_a) EXCEPT !.ignored = TRUE], <<>>)}

IgnoredFeedEvent ==
  \E ev \in ActedEvents \cup IgnoredEvents :
    Len(fed) < MaxIgnoredFeed /\ Translate(ev)

NextIgnored == IgnoredFeedEvent \/ CloseStream

SpecIgnored == InitTranslate /\ [][NextIgnored]_vars

\* C33: an event of an unrecognized type, a part of an unrecognized kind, a
\* file part, a step-start part and a text part flagged synthetic or ignored
\* each add nothing to the outbound stream and leave the whole stream state
\* as it was: no span opens or closes on them.
C33_IgnoredEventsChangeNothing ==
  [][fed' # fed /\ event' \in IgnoredEvents => out' = out /\ state' = state]_vars

\* a synthetic text part with the id of the open text span and a longer text
\* was translated while the span was open, then the span took its next snapshot
C33_Witness ==
  /\ Len(fed) = 3
  /\ fed[1] = EventMessagePartUpdated(TextPart("p1", "A", "m1", T_a), <<>>)
  /\ fed[2].part.synthetic /\ fed[2].part.id = "p1"
  /\ fed[3] = EventMessagePartUpdated(TextPart("p1", "A", "m1", <<"a", "b">>), <<>>)
  /\ Len(out) = 3 /\ out[3].type = "text-delta" /\ out[3].delta = <<"b">>

(***************************************************************************)
(* SpecUsage: feeds of step-finish parts with different token counts among *)
(* other events, then the finish.                                          *)
(***************************************************************************)
MaxUsageFeed == 3

Tokens(i, o, r, cr, cw) ==
  [input |-> i, output |-> o, reasoning |-> r, cache |-> [read |-> cr, write |-> cw]]

\* step-finish parts of the assistant message m1 and of the message m2
UsageSteps ==
  {EventMessagePartUpdated(StepFinishPart("s1", "A", mid, tk, c), <<>>) :
     mid \in {"m1", "m2"},
     tk \in {Tokens(1, 2, 3, 4, 5), Tokens(10, 20, 0, 40, 0)}, c \in {6}}
  \cup {EventMessagePartUpdated(StepFinishPart("s2", "A", "m1", ZeroTokens, 0), <<>>)}

UsageEvents ==
  UsageSteps
  \cup {EventMessagePartUpdated(TextPart("p1", "A", "m1", T_a), <<>>),
        EventMessageUpdated(Info("m2", "A", "user", Undefined, <<>>))}

UsageFeedEvent ==
  \E ev \in UsageEvents : Len(fed) < MaxUsageFeed /\ Translate(ev)

NextUsage == UsageFeedEvent \/ CloseStream

SpecUsage == InitTranslate /\ [][NextUsage]_vars

\* the step-finish parts of a feed that reached handleStepFinishPart: those not
\* of a message that an earlier event declared a user message
StepsTranslated(events) ==
  LET counted(i) ==
        /\ events[i].type = "message.part.updated"
        /\ events[i].part.type = "step-finish"
        /\ ~\E j \in 1..(i - 1) :
              /\ events[j].type = "message.updated"
              /\ events[j].info.id = events[i].part.messageID
              /\ events[j].info.role = "user"
      RECURSIVE From(_)
      From(i) == IF i > Len(events) THEN <<>>
                 ELSE (IF counted(i) THEN << events[i].part >> ELSE <<>>) \o From(i + 1)
  IN From(1)

RECURSIVE SumOf(_, _)
SumOf(F(_), parts) ==
  IF parts = <<>> THEN 0 ELSE F(Head(parts)) + SumOf(F, Tail(parts))

TokensInput(part) == part.tokens.input
TokensOutput(part) == part.tokens.output
TokensReasoning(part) == part.tokens.reasoning
TokensCacheRead(part) == part.tokens.cache.read
TokensCacheWrite(part) == part.tokens.cache.write
PartCost(part) == part.cost

\* C34: a step-finish part emits nothing; the usage of the finish event is the
\* field-wise sum over exactly the step-finish parts translated before it, the
\* total input being noCache + cacheRead + cacheWrite; with non-negative inputs
\* no field of the accumulator decreases.
C34_UsageIsSum ==
  /\ [](pc = "finished" =>
          LET fin == out[Len(out)]
              u == fin.usage
              steps == StepsTranslated(fed)
          IN /\ fin.type = "finish"
             /\ u.inputTokens.noCache = SumOf(TokensInput, steps)
             /\ u.inputTokens.cacheRead = SumOf(TokensCacheRead, steps)
             /\ u.inputTokens.cacheWrite = SumOf(TokensCacheWrite, steps)
             /\ u.outputTokens.total = SumOf(TokensOutput, steps)
             /\ u.outputTokens.reasoning = SumOf(TokensReasoning, steps)
             /\ fin.providerMetadata.opencode.cost = SumOf(PartCost, steps)
             /\ u.raw.total_cost = SumOf(PartCost, steps)
             /\ u.inputTokens.total
                  = u.inputTokens.noCache + u.inputTokens.cacheRead
                      + u.inputTokens.cacheWrite)
  /\ [][/\ fed' # fed /\ event'.part.type = "step-finish" => out' = out
        /\ LET u == FinishUsage(state)
               v == FinishUsage(state')
           IN /\ v.inputTokens.total >= u.inputTokens.total
              /\ v.inputTokens.noCache >= u.inputTokens.noCache
              /\ v.inputTokens.cacheRead >= u.inputTokens.cacheRead
              /\ v.inputTokens.cacheWrite >= u.inputTokens.cacheWrite
              /\ v.outputTokens.total >= u.outputTokens.total
              /\ v.outputTokens.reasoning >= u.outputTokens.reasoning
              /\ state'.usage.totalCost >= state.usage.totalCost]_vars

\* two different step-finish parts were translated and one of a user message
\* was not; the finish carries the sums of the two
C34_Witness ==
  /\ pc = "finished" /\ Len(fed) = 3
  /\ Len(StepsTranslated(fed)) = 2
  /\ out[Len(out)].usage.inputTokens.noCache = 11
  /\ out[Len(out)].usage.inputTokens.total = 11 + 44 + 5
  /\ out[Len(out)].providerMetadata.opencode.cost = 12

(***************************************************************************)
(* SpecReason: doStream over feeds of message updates of the assistant, of *)
(* the user and of another session, ended by a terminal event.             *)
(***************************************************************************)
MaxReasonFeed == 4

ReasonEvents ==
  {AssistantUpdated(f) : f \in {<<>>, S_max_tokens, S_content_filter}}
  \cup {EventMessageUpdated(Info("m1", "A", "assistant", "MessageAbortedError", S_max_tokens)),
        EventMessageUpdated(Info("m2", "A", "user", Undefined, S_content_filter)),
        EventMessageUpdated(Info("m1", "B", "assistant", Undefined, S_content_filter)),
        TextDelta(T_a),
        EventSessionIdle("A"),
        EventSessionStatus("A", "idle")}

ReasonFeedEvent ==
  \E ev \in ReasonEvents : Len(fed) < MaxReasonFeed /\ RelayEvent(ev)

NextReason == StreamStart \/ SubscribeOk \/ ReasonFeedEvent \/ FeedEnd \/ StreamClose

SpecReason == InitStream /\ [][NextReason]_vars

\* C35: the finish reason is the classification of the most recent assistant
\* message update of the session before the terminal event; a later assistant
\* update replaces an earlier one, an update of a user message or of another
\* session replaces nothing, and with no assistant update the reason is unknown.
C35_FinishReasonFromLastAssistant ==
  /\ lastMessageInfo = LastAssistantInfo(fed, sessionId)
  /\ HasFinish(out) =>
       LET fin == PartsOfType(out, "finish")[1]
       IN /\ fin.finishReason = mapOpencodeFinishReason(LastAssistantInfo(fed, sessionId))
          /\ LastAssistantInfo(fed, sessionId) = NoInfo => fin.finishReason = "unknown"

\* assistant (length), then assistant (content filter), then a user update,
\* then the terminal event: the finish reason is that of the second
C35_Witness ==
  /\ Len(fed) = 4 /\ HasFinish(out)
  /\ fed[1] = AssistantUpdated(S_max_tokens)
  /\ fed[2] = AssistantUpdated(S_content_filter)
  /\ fed[3].info.role = "user"
  /\ PartsOfType(out, "finish")[1].finishReason
       = mapFinishToReason(S_content_filter)
  /\ mapFinishToReason(S_content_filter) # mapFinishToReason(S_max_tokens)

\* no assistant update before the terminal event: the reason is unknown
C35_WitnessUnknown ==
  /\ HasFinish(out) /\ Len(fed) = 2 /\ fed[1].info.role = "user"
  /\ PartsOfType(out, "finish")[1].finishReason = "unknown"

\* the events of a feed that carry the part id
EventsOfPart(events, id) ==
  SelectSeq(events, LAMBDA ev : ev.part.id = id)

\* the outbound parts of a kind that carry the id
PartsOfId(parts, type, id) ==
  SelectSeq(PartsOfType(parts, type), LAMBDA pt : pt.id = id)

\* a feed of snapshot updates of the two text parts p1 and p2 that switches
\* from one part to the other and back, each part's snapshots non-empty and
\* each a prefix-extension of that part's previous one
InterleavedSnapshots(events) ==
  /\ \A i \in 1..Len(events) :
       /\ events[i].type = "message.part.updated" /\ events[i].part.type = "text"
       /\ events[i].delta = <<>> /\ events[i].part.text # <<>>
  /\ \A id \in {"p1", "p2"} :
       LET mine == EventsOfPart(events, id)
       IN \A i \in 2..Len(mine) : startsWith(mine[i].part.text, mine[i-1].part.text)
  /\ \E i, j, k \in 1..Len(events) :
       /\ i < j /\ j < k
       /\ events[i].part.id = events[k].part.id
       /\ events[j].part.id # events[i].part.id

\* C36: when snapshot updates of two text parts interleave, the text-deltas
\* emitted with a part's id concatenate to that part's final snapshot: going
\* back to a part whose span was force-closed emits none of its text again.
C36_InterleavedSnapshotsReconstruct ==
  InterleavedSnapshots(fed) =>
    \A id \in {"p1", "p2"} :
      LET mine == EventsOfPart(fed, id)
      IN mine # <<>> =>
           ConcatDeltas(PartsOfId(out, "text-delta", id)) = mine[Len(mine)].part.text

\* C36, what the code keeps: within one span (from a text-start to the next
\* text-end or the end of the stream) the deltas of snapshot updates
\* concatenate to the last snapshot translated in it.
C36_SpanReconstructs ==
  InterleavedSnapshots(fed) /\ pc = "translating" =>
    LET last == fed[Len(fed)]
        starts == {i \in 1..Len(out) : out[i].type = "text-start"}
        from == CHOOSE i \in starts : \A j \in starts : j <= i
    IN ConcatDeltas(PartsOfType(SubSeq(out, from, Len(out)), "text-delta"))
         = last.part.text

(***************************************************************************)
(* SpecReplay: tool events of one call whose serialized input grows, with  *)
(* running states replayed after the terminal ones.  The serialization of  *)
(* an object is never a proper prefix of that of another object, so a      *)
(* tool-input-delta needs an input that is no object: numbers here.        *)
(***************************************************************************)
MaxReplayEvents == 4

ReplayStates ==
  {ToolStatePending(<<>>),
   ToolStateRunning(<<"#", "1">>, Undefined),
   ToolStateRunning(<<"#", "1", "2">>, Undefined),
   ToolStateRunning(<<"a">>, "Run"),
   ToolStateCompleted(<<"#", "1", "2">>, "ok"),
   ToolStateError(<<"#", "1">>, "boom")}

ReplayEvents ==
  {EventMessagePartUpdated(ToolPart("t1", "A", "m1", c, "bash", ts), <<>>) :
     c \in ToolCallIds, ts \in ReplayStates}

ReplayEvent == \E ev \in ReplayEvents : Len(fed) < MaxReplayEvents /\ Translate(ev)

NextReplay == ReplayEvent

SpecReplay == InitTranslate /\ [][NextReplay]_vars

C37_DeltaAfterStart ==
  \A i \in 1..Len(out) :
    out[i].type = "tool-input-delta" =>
      ToolPartBefore(i, "tool-input-start", ToolPartCallId(out[i]))

(***************************************************************************)
(* SpecOverlap: calls of doGenerate / doStream on one model instance that  *)
(* has no preset session id and createNewSession unset, begun while        *)
(* earlier ones are still suspended.  req is the sequence of the calls;    *)
(* a call is at                                                            *)
(*   "session"   about to run getOrCreateSession                           *)
(*   "getting"   awaits clientManager.getClient                            *)
(*   "creating"  awaits client.session.create                              *)
(*   "client"    holds its session id, about to submit the prompt          *)
(*   "done"      submitted the prompt, or threw                            *)
(***************************************************************************)
MaxOverlap == 3

OverlapCalls == 1..Len(req)

InitOverlap ==
  /\ pc = "overlap"
  /\ sessionId = Undefined
  /\ IdleClassifier /\ IdleCorrelator /\ IdleTranslator /\ IdleRelay
  /\ IdleInstance /\ IdleNet /\ IdleGenerate /\ IdleManager
  /\ req = <<>>

OverlapUnchanged ==
  UNCHANGED <<pc, sessionId, classifierVars, correlatorVars, translatorVars,
              relayVars, generated, mgr>>

\* doGenerate / doStream is called; alone: every earlier call has ended
OverlapBegin ==
  /\ Len(req) < MaxOverlap
  /\ req' = Append(req, [pc |-> "session", sessionId |-> Undefined,
                         created |-> Undefined, outcome |-> "pending",
                         alone |-> \A j \in OverlapCalls : req[j].pc = "done"])
  /\ UNCHANGED <<inst, net>>
  /\ OverlapUnchanged

\* getOrCreateSession: the held id is returned
OverlapReuse(i) ==
  /\ req[i].pc = "session"
  /\ ReusesSession(inst)
  /\ req' = [req EXCEPT ![i].pc = "client", ![i].sessionId = inst.sessionId]
  /\ UNCHANGED <<inst, net>>
  /\ OverlapUnchanged

\* getOrCreateSession: no id is held, the call awaits getClient
OverlapGetClient(i) ==
  /\ req[i].pc = "session"
  /\ ~ReusesSession(inst)
  /\ net' = [net EXCEPT !.getClient = @ + 1]
  /\ req' = [req EXCEPT ![i].pc = "getting"]
  /\ UNCHANGED inst
  /\ OverlapUnchanged

\* getOrCreateSession: getClient rejects, or the client is there and
\* session.create is sent and awaited
OverlapCreateSent(i) ==
  /\ req[i].pc = "getting"
  /\ \/ /\ net' = [net EXCEPT !.create = @ + 1]
        /\ req' = [req EXCEPT ![i].pc = "creating",
                              ![i].created = CreatedId(net.create + 1)]
     \/ /\ req' = [req EXCEPT ![i].pc = "done", ![i].outcome = "threw"]
        /\ net' = net
  /\ UNCHANGED inst
  /\ OverlapUnchanged

\* getOrCreateSession: session.create answers with the id, which becomes the
\* held one, or without one
OverlapCreateReturned(i) ==
  /\ req[i].pc = "creating"
  /\ \/ /\ inst' = [inst EXCEPT !.sessionId = req[i].created]
        /\ req' = [req EXCEPT ![i].pc = "client", ![i].sessionId = req[i].created]
     \/ /\ req' = [req EXCEPT ![i].pc = "done", ![i].outcome = "threw"]
        /\ inst' = inst
  /\ net' = net
  /\ OverlapUnchanged

\* the call submits its prompt to its session
OverlapPrompt(i) ==
  /\ req[i].pc = "client"
  /\ net' = [net EXCEPT !.getClient = @ + 1, !.prompt = @ + 1]
  /\ req' = [req EXCEPT ![i].pc = "done", ![i].outcome = "prompted"]
  /\ UNCHANGED inst
  /\ OverlapUnchanged

NextOverlap ==
  \/ OverlapBegin
  \/ \E i \in OverlapCalls :
       \/ OverlapReuse(i) \/ OverlapGetClient(i) \/ OverlapCreateSent(i)
       \/ OverlapCreateReturned(i) \/ OverlapPrompt(i)

SpecOverlap == InitOverlap /\ [][NextOverlap]_vars

NoCallThrew == \A i \in OverlapCalls : req[i].outcome # "threw"

Prompted == {i \in OverlapCalls : req[i].outcome = "prompted"}

\* C38: on an instance without preset session id and with createNewSession
\* unset, any set of requests, overlapping ones included, makes at most one
\* session.create call, and all submit their prompt to the same session id.
C38_OneSessionForAllRequests ==
  NoCallThrew =>
    /\ net.create <= 1
    /\ \A i, j \in Prompted : req[i].sessionId = req[j].sessionId

\* C38, what the code keeps: requests of which each begins after the earlier
\* ones have ended share one session and one session.create call.
C38_SequentialRequestsShareSession ==
  NoCallThrew /\ (\A i \in OverlapCalls : req[i].alone) =>
    /\ net.create <= 1
    /\ \A i, j \in Prompted : req[i].sessionId = req[j].sessionId

\* every initialization of manager m has settled and every getClient call on
\* it has returned or thrown
InitsCompleted(m) ==
  /\ \A p \in 1..Len(mgr.promises) :
       mgr.promises[p].m = m => mgr.promises[p].state \in {"fulfilled", "rejected"}
  /\ \A c \in 1..Len(mgr.calls) : mgr.calls[c].m = m => mgr.calls[c].state # "pending"

\* C39: when dispose() was called and every initialization in flight at that
\* time has completed, the manager holds no client and no managed server, and
\* every server an initialization started has been closed.
C39_DisposedHoldsNothing ==
  \A m \in Managers :
    mgr.objs[m].isDisposed /\ InitsCompleted(m) =>
      /\ mgr.objs[m].client = NoClient
      /\ mgr.objs[m].server = 0
      /\ mgr.objs[m].closeCalls >= Cardinality(ServerStarts(m))

\* C39, what the code keeps: a manager disposed with no initialization in
\* flight holds no client and no server from then on.
C39_DisposedWhenQuiet ==
  [][\A m \in Managers :
       (/\ mgr.objs[m].isDisposed /\ mgr.objs[m].client = NoClient
        /\ mgr.objs[m].server = 0 /\ InitsCompleted(m)) =>
         /\ mgr'.objs[m].client = NoClient
         /\ mgr'.objs[m].server = 0]_vars

\* the getClient calls on manager m that started an initialization and have
\* not resumed from it
PendingStarters(m) ==
  {c \in 1..Len(mgr.calls) :
     mgr.calls[c].m = m /\ mgr.calls[c].role = "starter" /\ mgr.calls[c].state = "pending"}

\* C40: when an initialization fails, the getClient call that started it and
\* every call that waited for it reject with its failure; the starter leaves
\* the manager with no client and no pending initialization; and a getClient
\* call made after that on the manager, not disposed, starts an initialization
\* of its own instead of receiving the old failure.
C40_FailedInitializationIsNotKept ==
  /\ [][\A c \in 1..Len(mgr.calls) :
          (/\ mgr.calls[c].state = "pending" /\ mgr'.calls[c].state # "pending"
           /\ mgr.promises[mgr.calls[c].promise].state = "rejected") =>
            /\ mgr'.calls[c].state = "rejected"
            /\ mgr'.calls[c].reason = mgr.promises[mgr.calls[c].promise].reason
            /\ mgr.calls[c].role = "starter" =>
                 /\ mgr'.objs[mgr.calls[c].m].client = NoClient
                 /\ mgr'.objs[mgr.calls[c].m].initPromise = 0]_vars
  /\ [](\A m \in Managers :
          mgr.objs[m].initPromise # 0 =>
            \E c \in PendingStarters(m) : mgr.calls[c].promise = mgr.objs[m].initPromise)
  /\ [][(/\ Len(mgr'.calls) = Len(mgr.calls) + 1
         /\ ~mgr.objs[NewCall.m].isDisposed
         /\ mgr.objs[NewCall.m].client = NoClient
         /\ PendingStarters(NewCall.m) = {}) =>
          /\ NewCall.role = "starter" /\ NewCall.state = "pending"
          /\ NewCall.promise = Len(mgr.promises) + 1
          /\ Len(mgr'.promises) = Len(mgr.promises) + 1
          /\ mgr'.promises[NewCall.promise].state \notin {"rejected"}
          /\ mgr'.objs[NewCall.m].initPromise = NewCall.promise]_vars

\* the server start of the first initialization failed: its starter and a
\* waiter were rejected with that failure; the next call started a second
\* initialization, which started the server, and resolved from it
C40_Witness ==
  /\ Len(mgr.calls) = 3
  /\ mgr.calls[1].role = "starter" /\ mgr.calls[1].state = "rejected"
  /\ mgr.calls[2].role = "waiter" /\ mgr.calls[2].state = "rejected"
  /\ mgr.calls[2].reason = mgr.calls[1].reason
  /\ mgr.calls[1].reason = "Failed to start OpenCode server"
  /\ mgr.calls[3].role = "starter" /\ mgr.calls[3].promise = 2
  /\ mgr.calls[3].state = "resolved" /\ mgr.calls[3].value.src = "started"
  /\ ~mgr.objs[1].isDisposed

====
